---------------------------- MODULE Spec2Model ----------------------------
(***************************************************************************)
(* sorcery (sorcery/core.py): the execution-position resolver (FileInfo,   *)
(* CallFinder) and the assignment-target resolver (assigned_names).        *)
(*                                                                         *)
(* The syntax tree is a heap of node objects, as in Python: a node has a   *)
(* kind, a line number, a string (identifier, attribute, constant or       *)
(* function name), a parent back-reference and its fields, each a list of  *)
(* child objects.  The compiler is CPython 3.7's (the version whose        *)
(* opcode names core.py matches: CALL_FUNCTION*, CALL_METHOD): wordcode,   *)
(* two bytes per instruction, for the statement and expression kinds       *)
(* below.  Jump arguments stay below 256 in the files considered, so no    *)
(* EXTENDED_ARG prefix is ever emitted.                                    *)
(***************************************************************************)
EXTENDS Integers, Sequences, FiniteSets, TLC

(***************************************************************************)
(* Bounds of the generated source files.                                   *)
(***************************************************************************)
MaxCalls == 3
MaxDepth == 3
MaxStmts == 2
MaxPre == 1
MaxNames == 2

sentinel == "io8urthglkjdghvljusketgIYRFYUVGHFRTBGVHKGF78678957647698"
special_code_names == {"<listcomp>", "<dictcomp>", "<setcomp>", "<lambda>", "<genexpr>"}

(***************************************************************************)
(* Sequence helpers.                                                       *)
(***************************************************************************)
RECURSIVE Cat(_)
Cat(ss) == IF ss = <<>> THEN <<>> ELSE Head(ss) \o Cat(Tail(ss))

Range(s) == {s[i] : i \in 1..Len(s)}

Reverse(s) == [i \in 1..Len(s) |-> s[Len(s) + 1 - i]]

IndexOf(s, x) == CHOOSE i \in 1..Len(s) : s[i] = x /\ \A j \in 1..(i - 1) : s[j] # x

Keep(s, S) == SelectSeq(s, LAMBDA x : x \in S)

(***************************************************************************)
(* Syntax trees as written (before ast.parse hands them out as objects).   *)
(* Fields, in the order of ast's _fields:                                  *)
(*   Module body | FunctionDef body, decorator_list | Expr value           *)
(*   Assign targets, value | For target, iter, body, orelse                *)
(*   If test, body, orelse | Call func, args, keywords | keyword value     *)
(*   Attribute value | Subscript value, slice | Index value                *)
(*   Tuple, List elts | Starred value | Lambda body                        *)
(*   Dict keys, values | Set elts                                          *)
(*   ListComp elt, generators | comprehension target, iter, ifs            *)
(***************************************************************************)
T(k, ln, s, f) == [k |-> k, ln |-> ln, s |-> s, f |-> f]

Name(id, ln) == T("Name", ln, id, <<>>)
Num(v, ln) == T("Num", ln, v, <<>>)
Str(v, ln) == T("Str", ln, v, <<>>)
Attribute(v, attr, ln) == T("Attribute", ln, attr, <<<<v>>>>)
Index(v) == T("Index", 0, "", <<<<v>>>>)
Slice(v) == T("Slice", 0, "", <<<<v>>>>)
Subscript(v, sl, ln) == T("Subscript", ln, "", <<<<v>>, <<sl>>>>)
Tuple(elts, ln) == T("Tuple", ln, "", <<elts>>)
List(elts, ln) == T("List", ln, "", <<elts>>)
Set(elts, ln) == T("Set", ln, "", <<elts>>)
Dict(keys, values, ln) == T("Dict", ln, "", <<keys, values>>)
Starred(v, ln) == T("Starred", ln, "", <<<<v>>>>)
keyword(arg, v) == T("keyword", 0, arg, <<<<v>>>>)
Call(func, args, kws, ln) == T("Call", ln, "", <<<<func>>, args, kws>>)
Lambda(body, ln) == T("Lambda", ln, "", <<<<body>>>>)
comprehension(target, iter, ifs) == T("comprehension", 0, "", <<<<target>>, <<iter>>, ifs>>)
ListComp(elt, gens, ln) == T("ListComp", ln, "", <<<<elt>>, gens>>)
Expr(v, ln) == T("Expr", ln, "", <<<<v>>>>)
Assign(targets, v, ln) == T("Assign", ln, "", <<targets, <<v>>>>)
For(target, iter, body, orelse, ln) == T("For", ln, "", <<<<target>>, <<iter>>, body, orelse>>)
If(test, body, orelse, ln) == T("If", ln, "", <<<<test>>, body, orelse>>)
Pass(ln) == T("Pass", ln, "", <<>>)
FunctionDef(name, decos, body, ln) == T("FunctionDef", ln, name, <<body, decos>>)
Module(body) == T("Module", 0, "", <<body>>)

StmtKinds == {"FunctionDef", "Expr", "Assign", "For", "If", "Pass"}
BlockKinds == {"Module", "FunctionDef", "ClassDef"}

\* The fields of a node that are Python lists (isinstance(field, list)).
ListFields(k) ==
    CASE k = "Module" -> {1}
      [] k = "FunctionDef" -> {1, 2}
      [] k = "Assign" -> {1}
      [] k = "For" -> {3, 4}
      [] k = "If" -> {2, 3}
      [] k = "Call" -> {2, 3}
      [] k \in {"Tuple", "List", "Set"} -> {1}
      [] k = "Dict" -> {1, 2}
      [] k = "ListComp" -> {2}
      [] k = "comprehension" -> {3}
      [] OTHER -> {}

(***************************************************************************)
(* ast.parse and the parent pass of FileInfo.__init__: the tree becomes a  *)
(* heap of objects, numbered in preorder, each child holding the number of *)
(* the node it is a direct child of (0 for the root, which has no parent   *)
(* attribute).                                                             *)
(***************************************************************************)
RECURSIVE Size(_), SizeSeq(_)
SizeSeq(ts) == IF ts = <<>> THEN 0 ELSE Size(Head(ts)) + SizeSeq(Tail(ts))
Size(t) == 1 + SizeSeq(Cat(t.f))

FieldStart(t, j) == Len(Cat(SubSeq(t.f, 1, j - 1)))

KidId(t, id, i) == id + 1 + SizeSeq(SubSeq(Cat(t.f), 1, i - 1))

RECURSIVE Flatten(_, _, _)
Flatten(t, id, parent) ==
    LET kids == Cat(t.f)
        me == [k |-> t.k, ln |-> t.ln, s |-> t.s, parent |-> parent,
               f |-> [j \in 1..Len(t.f) |->
                        [i \in 1..Len(t.f[j]) |-> KidId(t, id, FieldStart(t, j) + i)]]]
    IN  <<me>> \o Cat([i \in 1..Len(kids) |-> Flatten(kids[i], KidId(t, id, i), id)])

Parse(t) == Flatten(t, 1, 0)


(***************************************************************************)
(* compile(): CPython 3.7's code generation for a heap h.  An instruction  *)
(* has an opname, an argval (only a constant's value is kept), the line    *)
(* the line table gives it and the node whose evaluation it completes      *)
(* (kept for call and subscript instructions; 0 otherwise).  Its offset is *)
(* twice its index.  A compilation in progress is r = [i, c, l]:           *)
(* instructions so far, nested code objects so far (co_consts order), and  *)
(* the unit's current line u_lineno, which a statement sets and an         *)
(* expression only ever raises.                                            *)
(***************************************************************************)
Ins(op, arg, line, node) == [op |-> op, arg |-> arg, line |-> line, node |-> node]

Unit(line) == [i |-> <<>>, c |-> <<>>, l |-> line]

Emit(r, op, arg, node) ==
    (CHOOSE val \in {( [x EXCEPT !.i = Append(@, Ins(op, arg, x.l, node))]) : x \in {r}} : TRUE)

Code(name, first, r) == [name |-> name, first |-> first, i |-> r.i, c |-> r.c]

\* Emitting a nested code object: it becomes a constant of the enclosing unit.
MakeFunction(r, code) ==
    (CHOOSE val \in {(
        Emit(Emit(Emit([r EXCEPT !.c = Append(@, co)], "LOAD_CONST", "<code>", 0),
                  "LOAD_CONST", co.name, 0), "MAKE_FUNCTION", "", 0)) : co \in {code}} : TRUE)

IsConst(h, id) == h[id].k \in {"Num", "Str"}

\* A call is compiled with CALL_FUNCTION_EX when it has *args or **kwargs.
HasStar(h, id) ==
    \/ \E a \in Range(h[id].f[2]) : h[a].k = "Starred"
    \/ \E w \in Range(h[id].f[3]) : h[w].s = ""

\* The number of dictionaries compiler_call_helper leaves on the stack: one per
\* ** argument and one per maximal run of named keywords.
RECURSIVE NSubKw(_, _, _)
NSubKw(h, kws, pending) ==
    IF kws = <<>> THEN (IF pending THEN 1 ELSE 0)
    ELSE IF h[Head(kws)].s = ""
         THEN (IF pending THEN 1 ELSE 0) + 1 + NSubKw(h, Tail(kws), FALSE)
         ELSE NSubKw(h, Tail(kws), TRUE)

\* The number of tuples it leaves on the stack: one per * argument and one per
\* maximal run of plain arguments.
RECURSIVE NSubArgs(_, _, _)
NSubArgs(h, args, seen) ==
    IF args = <<>> THEN (IF seen THEN 1 ELSE 0)
    ELSE IF h[Head(args)].k = "Starred"
         THEN (IF seen THEN 1 ELSE 0) + 1 + NSubArgs(h, Tail(args), FALSE)
         ELSE NSubArgs(h, Tail(args), TRUE)

RECURSIVE VExpr(_, _, _), VExprs(_, _, _), VStore(_, _, _), VStores(_, _, _),
          VStmt(_, _, _), VStmts(_, _, _), VCall(_, _, _), VSubKw(_, _, _),
          VKwEx(_, _, _, _), VGens(_, _, _, _, _), VDupStores(_, _, _),
          VArgsEx(_, _, _, _)

VExprs(h, ids, unit) ==
    (CHOOSE val \in {(
    IF ids = <<>> THEN r ELSE VExprs(h, Tail(ids), VExpr(h, Head(ids), r))) : r \in {unit}} : TRUE)

KwValues(h, kws) == [i \in 1..Len(kws) |-> h[kws[i]].f[1][1]]

\* compiler_subkwargs: one dictionary from a run of named keywords.
VSubKw(h, run, unit) ==
    (CHOOSE val \in {(
    IF Len(run) > 1
    THEN Emit(Emit(VExprs(h, KwValues(h, run), r), "LOAD_CONST", "<names>", 0),
              "BUILD_CONST_KEY_MAP", "", 0)
    ELSE Emit(VExpr(h, h[run[1]].f[1][1], Emit(r, "LOAD_CONST", h[run[1]].s, 0)),
              "BUILD_MAP", "", 0)) : r \in {unit}} : TRUE)

VKwEx(h, kws, run, unit) ==
    (CHOOSE val \in {(
    LET flushed == IF run = <<>> THEN r ELSE VSubKw(h, run, r)
    IN  IF kws = <<>> THEN flushed
        ELSE IF h[Head(kws)].s = ""
             THEN VKwEx(h, Tail(kws), <<>>, VExpr(h, h[Head(kws)].f[1][1], flushed))
             ELSE VKwEx(h, Tail(kws), Append(run, Head(kws)), r)) : r \in {unit}} : TRUE)

\* The positional arguments of a call with * or **: each run of plain arguments
\* is built into a tuple, each * argument's value is left as it is.
VArgsEx(h, args, seen, unit) ==
    (CHOOSE val \in {(
    LET flushed == IF seen THEN Emit(r, "BUILD_TUPLE", "", 0) ELSE r
    IN  IF args = <<>> THEN flushed
        ELSE IF h[Head(args)].k = "Starred"
             THEN VArgsEx(h, Tail(args), FALSE, VExpr(h, h[Head(args)].f[1][1], flushed))
             ELSE VArgsEx(h, Tail(args), TRUE, VExpr(h, Head(args), r))) : r \in {unit}} : TRUE)

\* compiler_call, maybe_optimize_method_call and compiler_call_helper.
VCall(h, id, unit) ==
    (CHOOSE val \in {(
    LET n == h[id]
        func == n.f[1][1]
        args == n.f[2]
        kws == n.f[3]
    IN  IF h[func].k = "Attribute" /\ kws = <<>> /\ ~HasStar(h, id)
        THEN Emit(VExprs(h, args, Emit(VExpr(h, h[func].f[1][1], r), "LOAD_METHOD", "", 0)),
                  "CALL_METHOD", "", id)
        ELSE IF ~HasStar(h, id)
        THEN LET a == VExprs(h, KwValues(h, kws), VExprs(h, args, VExpr(h, func, r)))
             IN  IF kws = <<>> THEN Emit(a, "CALL_FUNCTION", "", id)
                 ELSE Emit(Emit(a, "LOAD_CONST", "<names>", 0), "CALL_FUNCTION_KW", "", id)
        ELSE LET a0 == VArgsEx(h, args, FALSE, VExpr(h, func, r))
                 a == IF NSubArgs(h, args, FALSE) > 1
                      THEN Emit(a0, "BUILD_TUPLE_UNPACK_WITH_CALL", "", 0)
                      ELSE IF NSubArgs(h, args, FALSE) = 0
                      THEN Emit(a0, "BUILD_TUPLE", "", 0)
                      ELSE a0
                 b == VKwEx(h, kws, <<>>, a)
                 c == IF NSubKw(h, kws, FALSE) > 1
                      THEN Emit(b, "BUILD_MAP_UNPACK_WITH_CALL", "", 0) ELSE b
             IN  Emit(c, "CALL_FUNCTION_EX", "", id)) : r \in {unit}} : TRUE)

\* compiler_comprehension_generator, for generators gens[g..] of a list
\* comprehension; the first iterator is the code object's argument .0.
VGens(h, gens, g, elt, unit) ==
    (CHOOSE val \in {(
    IF g > Len(gens) THEN Emit(VExpr(h, elt, r), "LIST_APPEND", "", 0)
    ELSE LET gen == h[gens[g]]
             it == IF g = 1 THEN Emit(r, "LOAD_FAST", ".0", 0)
                   ELSE Emit(VExpr(h, gen.f[2][1], r), "GET_ITER", "", 0)
             st == VStore(h, gen.f[1][1], Emit(it, "FOR_ITER", "", 0))
             RECURSIVE Ifs(_, _)
             Ifs(tests, acc) ==
                 IF tests = <<>> THEN acc
                 ELSE Ifs(Tail(tests), Emit(VExpr(h, Head(tests), acc), "POP_JUMP_IF_FALSE", "", 0))
         IN  Emit(VGens(h, gens, g + 1, elt, Ifs(gen.f[3], st)), "JUMP_ABSOLUTE", "", 0)) : r \in {unit}} : TRUE)

\* compiler_visit_expr: the unit's line is raised to the node's, never lowered.
VExpr(h, id, unit) ==
    (CHOOSE val \in {(
    LET n == h[id]
        r0 == [r EXCEPT !.l = IF n.ln > @ THEN n.ln ELSE @]
    IN  CASE n.k = "Name" -> Emit(r0, "LOAD_NAME", "", 0)
          [] n.k \in {"Num", "Str"} -> Emit(r0, "LOAD_CONST", n.s, 0)
          [] n.k = "Attribute" -> Emit(VExpr(h, n.f[1][1], r0), "LOAD_ATTR", "", 0)
          [] n.k = "Subscript" ->
                Emit(VExpr(h, h[n.f[2][1]].f[1][1], VExpr(h, n.f[1][1], r0)),
                     "BINARY_SUBSCR", "", id)
          [] n.k = "Tuple" ->
                \* the AST optimizer folds a tuple of constants into one constant
                IF \A e \in Range(n.f[1]) : IsConst(h, e)
                THEN Emit(r0, "LOAD_CONST", "<tuple>", 0)
                ELSE Emit(VExprs(h, n.f[1], r0), "BUILD_TUPLE", "", 0)
          [] n.k = "List" -> Emit(VExprs(h, n.f[1], r0), "BUILD_LIST", "", 0)
          [] n.k = "Set" -> Emit(VExprs(h, n.f[1], r0), "BUILD_SET", "", 0)
          [] n.k = "Dict" ->
                \* compiler_subdict: several constant keys are loaded as one tuple
                IF Len(n.f[1]) > 1 /\ \A e \in Range(n.f[1]) : IsConst(h, e)
                THEN Emit(Emit(VExprs(h, n.f[2], r0), "LOAD_CONST", "<keys>", 0),
                          "BUILD_CONST_KEY_MAP", "", 0)
                ELSE Emit(VExprs(h, [i \in 1..2 * Len(n.f[1]) |->
                                        IF i % 2 = 1 THEN n.f[1][(i + 1) \div 2]
                                        ELSE n.f[2][i \div 2]], r0),
                          "BUILD_MAP", "", 0)
          [] n.k = "Call" -> VCall(h, id, r0)
          [] n.k = "Lambda" ->
                MakeFunction(r0, Code("<lambda>", n.ln,
                    Emit(VExpr(h, n.f[1][1], Unit(n.ln)), "RETURN_VALUE", "", 0)))
          [] n.k = "ListComp" ->
                LET inner == Emit(VGens(h, n.f[2], 1, n.f[1][1],
                                        Emit(Unit(n.ln), "BUILD_LIST", "", 0)),
                                  "RETURN_VALUE", "", 0)
                    outer == MakeFunction(r0, Code("<listcomp>", n.ln, inner))
                IN  Emit(Emit(VExpr(h, h[n.f[2][1]].f[2][1], outer), "GET_ITER", "", 0),
                         "CALL_FUNCTION", "<comprehension>", 0)) : r \in {unit}} : TRUE)

VStores(h, ids, unit) ==
    (CHOOSE val \in {(
    IF ids = <<>> THEN r ELSE VStores(h, Tail(ids), VStore(h, Head(ids), r))) : r \in {unit}} : TRUE)

\* An expression in Store context.
VStore(h, id, unit) ==
    (CHOOSE val \in {(
    LET n == h[id]
        r0 == [r EXCEPT !.l = IF n.ln > @ THEN n.ln ELSE @]
    IN  CASE n.k = "Name" -> Emit(r0, "STORE_NAME", "", 0)
          [] n.k = "Attribute" -> Emit(VExpr(h, n.f[1][1], r0), "STORE_ATTR", "", 0)
          [] n.k = "Subscript" ->
                Emit(VExpr(h, h[n.f[2][1]].f[1][1], VExpr(h, n.f[1][1], r0)),
                     "STORE_SUBSCR", "", 0)
          [] n.k \in {"Tuple", "List"} ->
                VStores(h, n.f[1],
                    Emit(r0, IF \E e \in Range(n.f[1]) : h[e].k = "Starred"
                             THEN "UNPACK_EX" ELSE "UNPACK_SEQUENCE", "", 0))
          [] n.k = "Starred" -> VStore(h, n.f[1][1], r0)) : r \in {unit}} : TRUE)

\* The targets of an assignment: the value is duplicated for all but the last.
VDupStores(h, targets, unit) ==
    (CHOOSE val \in {(
    IF Len(targets) = 1 THEN VStore(h, targets[1], r)
    ELSE VDupStores(h, Tail(targets), VStore(h, Head(targets), Emit(r, "DUP_TOP", "", 0)))) : r \in {unit}} : TRUE)

VStmts(h, ids, unit) ==
    (CHOOSE val \in {(
    IF ids = <<>> THEN r ELSE VStmts(h, Tail(ids), VStmt(h, Head(ids), r))) : r \in {unit}} : TRUE)

\* A function body, with the implicit return of None.
FunctionCode(h, name, first, body) ==
    Code(name, first,
         Emit(Emit(VStmts(h, body, Unit(first)), "LOAD_CONST", "None", 0), "RETURN_VALUE", "", 0))

\* One CALL_FUNCTION per decorator, innermost (last written) first.
RECURSIVE ApplyDecorators(_, _)
ApplyDecorators(decos, unit) ==
    (CHOOSE val \in {(
    IF decos = <<>> THEN r
    ELSE ApplyDecorators(SubSeq(decos, 1, Len(decos) - 1),
                         Emit(r, "CALL_FUNCTION", "<decorator>", 0))) : r \in {unit}} : TRUE)

\* compiler_visit_stmt: a statement sets the unit's line to its own.
VStmt(h, id, unit) ==
    (CHOOSE val \in {(
    LET n == h[id]
        r0 == [r EXCEPT !.l = n.ln]
    IN  CASE n.k = "Pass" -> r0
          [] n.k = "Expr" ->
                \* an expression statement that is a constant is dropped
                IF IsConst(h, n.f[1][1]) THEN r0
                ELSE Emit(VExpr(h, n.f[1][1], r0), "POP_TOP", "", 0)
          [] n.k = "Assign" -> VDupStores(h, n.f[1], VExpr(h, n.f[2][1], r0))
          [] n.k = "For" ->
                LET it == Emit(VExpr(h, n.f[2][1], Emit(r0, "SETUP_LOOP", "", 0)),
                               "GET_ITER", "", 0)
                    st == VStore(h, n.f[1][1], Emit(it, "FOR_ITER", "", 0))
                    body == Emit(Emit(VStmts(h, n.f[3], st), "JUMP_ABSOLUTE", "", 0),
                                 "POP_BLOCK", "", 0)
                IN  VStmts(h, n.f[4], body)
          [] n.k = "If" ->
                LET body == VStmts(h, n.f[2],
                                Emit(VExpr(h, n.f[1][1], r0), "POP_JUMP_IF_FALSE", "", 0))
                IN  IF n.f[3] = <<>> THEN body
                    ELSE VStmts(h, n.f[3], Emit(body, "JUMP_FORWARD", "", 0))
          [] n.k = "FunctionDef" ->
                LET decos == VExprs(h, n.f[2], r0)
                    fn == MakeFunction(decos, FunctionCode(h, n.s, n.ln, n.f[1]))
                IN  Emit(ApplyDecorators(n.f[2], fn), "STORE_NAME", "", 0)) : r \in {unit}} : TRUE)

\* compile(module, '<mod>', 'exec') for a Module whose body is the statements ids.
CompileModule(h, ids) ==
    Code("<module>", 1,
         Emit(Emit(VStmts(h, ids, Unit(1)), "LOAD_CONST", "None", 0), "RETURN_VALUE", "", 0))

Offset(i) == 2 * (i - 1)

\* A code object and every code object nested in it.
RECURSIVE AllCodes(_)
AllCodes(code) ==
    (CHOOSE val \in {( <<co>> \o Cat([j \in 1..Len(co.c) |-> AllCodes(co.c[j])])) : co \in {code}} : TRUE)

(***************************************************************************)
(* State.                                                                  *)
(*   source         FileInfo.source: the file as written (never changes)   *)
(*   heap           FileInfo.tree: the node objects, which the matcher     *)
(*                  mutates temporarily; the last objects are the marker   *)
(*                  nodes each thread creates (keyword, Str, Expr, List,   *)
(*                  Str), which belong to no list until attached           *)
(*   nodes_by_line  FileInfo.nodes_by_line                                 *)
(*   contexts       the parent attribute of the expression context objects *)
(*                  Load and Store, of which ast.parse hands out one each  *)
(*                  for all the nodes of all the trees it builds: own when *)
(*                  it is a node of this file's tree, node 0 when none     *)
(*   th             per thread, the frame being resolved and the locals of *)
(*                  Spell.__call__, _call_at and CallFinder                *)
(*   target         the outcome of the last assigned_names call            *)
(*   file_info      the lru_cache around FileInfo: the cached file names,  *)
(*                  least recently used first                              *)
(*   parsed         how many FileInfo objects have been built for the file *)
(*                  (the newest is the one the cache can hold)             *)
(*   modules        how many other modules of the program have called a    *)
(*                  spell                                                  *)
(*   kept           a call site a caller of the resolver has held on to    *)
(*   _excluded_codes  Spell._excluded_codes                                *)
(*   wrappers       the callables of other files through which the program *)
(*                  reaches its spells                                     *)
(*   decorated      the functions that have been passed to no_spells       *)
(***************************************************************************)
VARIABLES source, heap, nodes_by_line, contexts, th, target,
          file_info, parsed, modules, kept, _excluded_codes, wrappers, decorated

cache == <<file_info, parsed>>

program == <<modules, kept, _excluded_codes, wrappers, decorated>>

vars == <<source, heap, nodes_by_line, contexts, th, target, cache, program>>

Threads == {1, 2}
Solo == {1}

\* The marker objects of thread t: j = 1 keyword(arg=None), 2 its Str(sentinel),
\* 3 Expr, 4 its List, 5 its Str(sentinel).
Syn(h, t, j) == Len(h) - 5 * Cardinality(Threads) + 5 * (t - 1) + j

MarkerNodes(n) ==
    Cat([t \in 1..Cardinality(Threads) |->
           <<[k |-> "keyword", ln |-> 0, s |-> "", parent |-> 0, f |-> <<<<n + 5 * (t - 1) + 2>>>>],
             [k |-> "Str", ln |-> 0, s |-> sentinel, parent |-> 0, f |-> <<>>],
             [k |-> "Expr", ln |-> 0, s |-> "", parent |-> 0, f |-> <<<<n + 5 * (t - 1) + 4>>>>],
             [k |-> "List", ln |-> 0, s |-> "", parent |-> 0, f |-> <<<<n + 5 * (t - 1) + 5>>>>],
             [k |-> "Str", ln |-> 0, s |-> sentinel, parent |-> 0, f |-> <<>>]>>])

\* ast.walk(node): breadth first, children in field order.
RECURSIVE Bfs(_, _)
Bfs(h, queue) ==
    (CHOOSE val \in {(
        IF q = <<>> THEN <<>> ELSE <<Head(q)>> \o Bfs(h, Tail(q) \o Cat(h[Head(q)].f))) : q \in {queue}} : TRUE)

Walk(h, id) == Bfs(h, <<id>>)

\* FileInfo.__init__: the nodes that have a lineno, by that line, in walk order.
\* An index that lists a node under every line on which something of it starts.
NodesByLineSpans(h) ==
    [l \in {h[i].ln : i \in 1..Len(h)} \ {0} |->
        SelectSeq(Walk(h, 1), LAMBDA i :
            h[i].ln # 0 /\ \E d \in Range(Walk(h, i)) : h[d].ln = l)]

NodesByLine(h) ==
    [l \in {h[i].ln : i \in 1..Len(h)} \ {0} |->
        SelectSeq(Walk(h, 1), LAMBDA i : h[i].ln = l)]

\* The expression contexts.  ast.parse gives every node with a ctx field the same
\* Load object or the same Store object, and the parent pass sets the parent
\* attribute of that object each time it comes to a node holding it.
ContextKinds == {"Load", "Store"}

\* Whether node n is written where a value is stored: a target of an assignment,
\* the target of a loop or clause, or an element of such a tuple, list or star.
RECURSIVE InTarget(_, _)
InTarget(h, n) ==
    LET p == h[n].parent
    IN  /\ p # 0
        /\ \/ h[p].k = "Assign" /\ n \in Range(h[p].f[1])
           \/ h[p].k \in {"For", "comprehension"} /\ n = h[p].f[1][1]
           \/ h[p].k \in {"Tuple", "List", "Starred"} /\ InTarget(h, p)

\* The context object node n holds in its ctx field, "" when it has no such field.
Ctx(h, n) ==
    IF h[n].k \notin {"Name", "Attribute", "Subscript", "Starred", "List", "Tuple"} THEN ""
    ELSE IF InTarget(h, n) THEN "Store" ELSE "Load"

\* The parent of each context object after the parent pass over the tree: the
\* last node ast.walk comes to that holds it.
ContextParents(h) ==
    [k \in ContextKinds |->
        LET holders == SelectSeq(Walk(h, 1), LAMBDA i : Ctx(h, i) = k)
        IN  [own |-> TRUE, node |-> IF holders = <<>> THEN 0 ELSE holders[Len(holders)]]]

\* The parent pass over the tree of another file, which calls a spell and so loads
\* a name at least, and which stores to a name or does not.
OtherParents(parents, stores) ==
    [k \in ContextKinds |->
        IF k = "Load" \/ stores THEN [own |-> FALSE, node |-> 0] ELSE parents[k]]

RECURSIVE statement_containing_node(_, _)
statement_containing_node(h, id) ==
    IF h[id].k \in StmtKinds THEN id ELSE statement_containing_node(h, h[id].parent)

RECURSIVE get_containing_block(_, _)
get_containing_block(h, id) ==
    LET p == h[id].parent
    IN  IF h[p].k \in BlockKinds THEN p ELSE get_containing_block(h, p)

\* get_node_bodies(node), restricted to the lists that hold stmt: <<node, field>>.
BodiesHolding(h, stmt) ==
    LET p == h[stmt].parent
    IN  {<<p, j>> : j \in {j \in ListFields(h[p].k) : stmt \in Range(h[p].f[j])}}

BodyList(h, body) == h[body[1]].f[body[2]]

\* sorted(stmts, key=body.index): body.index raises ValueError for a statement that
\* is not in the body.
SortableSingle(h, body, stmts) == Cardinality(stmts) = 1

\* A sort that passes over the statements that are not in the body.
SortableAny(h, body, stmts) == TRUE

Sortable(h, body, stmts) == \A x \in stmts : x \in Range(BodyList(h, body))

SortByBodyReversed(h, body, stmts) == Reverse(Keep(BodyList(h, body), stmts))

SortByBody(h, body, stmts) == Keep(BodyList(h, body), stmts)

\* A filter that knows the two plain call instructions only.
_call_instructions_plain(instructions) ==
    SelectSeq(instructions, LAMBDA x : x.op \in {"CALL_FUNCTION", "CALL_METHOD"})

_call_instructions(instructions) ==
    SelectSeq(instructions, LAMBDA x :
        x.op \in {"CALL_FUNCTION", "CALL_FUNCTION_KW", "CALL_FUNCTION_EX", "CALL_METHOD"})

IsCallOp(x) == _call_instructions(<<x>>) # <<>>

\* find_code: the code objects nested in root_code that have the frame's first
\* line and name; the caller takes only() of them.
CodeMatches(const, matching) == const.first = matching.first /\ const.name = matching.name

find_code(root_code, matching) ==
    IF matching.name \notin special_code_names THEN <<root_code>>
    ELSE SelectSeq(Tail(AllCodes(root_code)), LAMBDA const : CodeMatches(const, matching))

\* make_sandbox_module and compile_instructions: the instructions of the code
\* found in the compiled '<function>' wrapper, or <<>> with ok false when only() fails.
compile_instructions(h, stmts, frame) ==
    (CHOOSE val \in {( IF Len(options) = 1 THEN [ok |-> TRUE, i |-> options[1].i]
                          ELSE [ok |-> FALSE, i |-> <<>>]) : options \in {find_code(FunctionCode(h, "<function>", h[stmts[1]].ln, stmts), frame)}} : TRUE)

\* The compilation of stmt_offset: the module itself, or the only code object of a
\* module holding just the containing block.
BlockInstructions(h, block) ==
    IF h[block].k = "Module"
    THEN [ok |-> TRUE, i |-> CompileModule(h, h[block].f[1]).i]
    ELSE (CHOOSE val \in {( IF Len(consts) = 1 THEN [ok |-> TRUE, i |-> consts[1].i]
                              ELSE [ok |-> FALSE, i |-> <<>>]) : consts \in {VStmt(h, block, Unit(1)).c}} : TRUE)

SentinelAt(instructions) == {i \in 1..Len(instructions) : instructions[i].arg = sentinel}

\* A stmt_offset that measures nothing.
SentinelOffsetNone(instructions) == 0

\* The offset stmt_offset returns: that of the only instruction loading the sentinel.
SentinelOffset(instructions) == Offset(CHOOSE i \in SentinelAt(instructions) : TRUE)

\* A matcher that takes the first call instruction of the unit for the executing one.
CallIndexAtFirst(instructions, offset) ==
    {0 : i \in {i \in 1..Len(instructions) :
                  IsCallOp(instructions[i]) /\ Offset(i) = offset}}

\* A baseline that takes the call instruction after the executing one.
CallIndexAtNext(instructions, offset) ==
    LET calls == {i \in 1..Len(instructions) : IsCallOp(instructions[i])}
    IN  {Cardinality({j \in calls : j < i}) + 1 : i \in {i \in calls : Offset(i) = offset}}

\* The indices, among the call instructions, of those at the given offset.
CallIndexAt(instructions, offset) ==
    LET calls == {i \in 1..Len(instructions) : IsCallOp(instructions[i])}
    IN  {Cardinality({j \in calls : j < i}) : i \in {i \in calls : Offset(i) = offset}}

\* A matcher that records the last call instruction of the unit for every candidate.
CallIndexAfterLast(instructions, a) ==
    Cardinality({i \in 1..Len(instructions) : IsCallOp(instructions[i])}) - 1

\* The index, among the call instructions, of the first one at or after position a.
CallIndexAfter(instructions, a) ==
    LET calls == {i \in 1..Len(instructions) : IsCallOp(instructions[i])}
        later == {i \in calls : i >= a}
    IN  IF later = {} THEN -1
        ELSE LET first == CHOOSE i \in later : \A j \in later : i <= j
             IN  Cardinality({j \in calls : j < first})

\* A tweak_list that leaves the list as the with block left it.
tweak_list_kept(h, node, field, original) == h

\* Leaving tweak_list(lst), by return or by exception: lst[:] = original, for the
\* list held in the given field of the given node.
tweak_list(h, node, field, original) == [h EXCEPT ![node].f[field] = original]

CandidateCalls(h, stmts) ==
    SelectSeq(Cat([j \in 1..Len(stmts) |-> Walk(h, stmts[j])]), LAMBDA i : h[i].k = "Call")

(***************************************************************************)
(* assigned_names, node_names and node_name.  A name is a one-element      *)
(* sequence; <<>> stands for the TypeError of node_name.                   *)
(***************************************************************************)
\* A node_name that also names a subscript by a constant that is no string.
node_name_loose(h, id) ==
    LET n == h[id]
    IN  IF n.k \in {"Name", "Attribute"} THEN <<n.s>>
        ELSE IF n.k = "Subscript" /\ h[n.f[2][1]].k = "Index"
                /\ h[h[n.f[2][1]].f[1][1]].k \in {"Str", "Num"}
             THEN <<h[h[n.f[2][1]].f[1][1]].s>>
        ELSE <<>>

node_name(h, id) ==
    LET n == h[id]
    IN  IF n.k = "Name" THEN <<n.s>>
        ELSE IF n.k = "Attribute" THEN <<n.s>>
        ELSE IF /\ n.k = "Subscript"
                /\ h[n.f[2][1]].k = "Index"
                /\ h[h[n.f[2][1]].f[1][1]].k = "Str"
             THEN <<h[h[n.f[2][1]].f[1][1]].s>>
        ELSE <<>>

node_names(h, id) ==
    LET elts == IF h[id].k \in {"Tuple", "List"} THEN h[id].f[1] ELSE <<id>>
    IN  IF \E e \in Range(elts) : node_name(h, e) = <<>>
        THEN [ok |-> FALSE, names |-> <<>>]
        ELSE [ok |-> TRUE, names |-> [i \in 1..Len(elts) |-> node_name(h, elts[i])[1]]]

\* The two TypeErrors of core.py, under the names the specification gives them.
NoBindingFound == "No assignment found"
UnsupportedTarget == "Cannot extract name"

\* No assigned_names call made: call is the node asked about, 0 for none.
NoTarget ==
    [call |-> 0, allow_one |-> FALSE, allow_loops |-> FALSE,
     err |-> "", names |-> <<>>, node |-> 0, steps |-> 0]

\* A target selection that considers loops whatever allow_loops says.
TargetOfLoops(h, node, allow_loops) ==
    IF h[node].k = "Assign"
    THEN (IF Len(h[node].f[1]) = 1 THEN h[node].f[1][1] ELSE -1)
    ELSE IF h[node].k \in {"For", "comprehension"} THEN h[node].f[1][1]
    ELSE 0

\* The binding target assigned_names takes from an ancestor: 0 when the ancestor is
\* passed over, -1 when only(node.targets) fails.
TargetOf(h, node, allow_loops) ==
    IF h[node].k = "Assign"
    THEN (IF Len(h[node].f[1]) = 1 THEN h[node].f[1][1] ELSE -1)
    ELSE IF h[node].k \in {"For", "comprehension"} /\ allow_loops THEN h[node].f[1][1]
    ELSE 0

\* An acceptance test that takes any number of names.
AcceptsAny(names, allow_one) == TRUE

Accepts(names, allow_one) == Len(names) > 1 \/ allow_one

\* A walk that passes over a construct it cannot take names from.
RECURSIVE WalkUpSkipping(_, _, _, _, _)
WalkUpSkipping(h, node, allow_one, allow_loops, steps) ==
    IF h[node].parent = 0
    THEN [err |-> NoBindingFound, names |-> <<>>, node |-> 0, steps |-> steps]
    ELSE LET p == h[node].parent
             t == TargetOf(h, p, allow_loops)
         IN  IF t <= 0 THEN WalkUpSkipping(h, p, allow_one, allow_loops, steps + 1)
             ELSE LET r == node_names(h, t)
                  IN  IF r.ok /\ (Len(r.names) > 1 \/ allow_one)
                      THEN [err |-> "", names |-> r.names, node |-> p, steps |-> steps + 1]
                      ELSE WalkUpSkipping(h, p, allow_one, allow_loops, steps + 1)

\* A walk that goes on past a construct it could take and returns the outermost one.
RECURSIVE WalkUpOutermost(_, _, _, _, _)
WalkUpOutermost(h, node, allow_one, allow_loops, steps) ==
    IF h[node].parent = 0
    THEN [err |-> NoBindingFound, names |-> <<>>, node |-> 0, steps |-> steps]
    ELSE LET p == h[node].parent
             t == TargetOf(h, p, allow_loops)
             further == WalkUpOutermost(h, p, allow_one, allow_loops, steps + 1)
         IN  IF t = -1
             THEN [err |-> "only", names |-> <<>>, node |-> p, steps |-> steps + 1]
             ELSE IF t = 0 THEN further
             ELSE LET r == node_names(h, t)
                  IN  IF ~r.ok
                      THEN [err |-> UnsupportedTarget, names |-> <<>>, node |-> p,
                            steps |-> steps + 1]
                      ELSE IF Accepts(r.names, allow_one) /\ further.err # ""
                      THEN [err |-> "", names |-> r.names, node |-> p, steps |-> steps + 1]
                      ELSE further

\* A walk that gives up at the function the node is in.
RECURSIVE WalkUpInFunction(_, _, _, _, _)
WalkUpInFunction(h, node, allow_one, allow_loops, steps) ==
    IF h[node].parent = 0 \/ h[h[node].parent].k = "FunctionDef"
    THEN [err |-> NoBindingFound, names |-> <<>>, node |-> 0, steps |-> steps]
    ELSE LET p == h[node].parent
             t == TargetOf(h, p, allow_loops)
         IN  IF t = -1
             THEN [err |-> "only", names |-> <<>>, node |-> p, steps |-> steps + 1]
             ELSE IF t = 0 THEN WalkUpInFunction(h, p, allow_one, allow_loops, steps + 1)
             ELSE LET r == node_names(h, t)
                  IN  IF ~r.ok
                      THEN [err |-> UnsupportedTarget, names |-> <<>>, node |-> p,
                            steps |-> steps + 1]
                      ELSE IF Accepts(r.names, allow_one)
                      THEN [err |-> "", names |-> r.names, node |-> p, steps |-> steps + 1]
                      ELSE WalkUpInFunction(h, p, allow_one, allow_loops, steps + 1)

RECURSIVE WalkUp(_, _, _, _, _)
WalkUp(h, node, allow_one, allow_loops, steps) ==
    IF h[node].parent = 0
    THEN [err |-> NoBindingFound, names |-> <<>>, node |-> 0, steps |-> steps]
    ELSE LET p == h[node].parent
             t == TargetOf(h, p, allow_loops)
         IN  IF t = -1
             THEN [err |-> "only", names |-> <<>>, node |-> p, steps |-> steps + 1]
             ELSE IF t = 0 THEN WalkUp(h, p, allow_one, allow_loops, steps + 1)
             ELSE LET r == node_names(h, t)
                  IN  IF ~r.ok
                      THEN [err |-> UnsupportedTarget, names |-> <<>>, node |-> p,
                            steps |-> steps + 1]
                      ELSE IF Accepts(r.names, allow_one)
                      THEN [err |-> "", names |-> r.names, node |-> p, steps |-> steps + 1]
                      ELSE WalkUp(h, p, allow_one, allow_loops, steps + 1)

assigned_names(h, node, allow_one, allow_loops) == WalkUp(h, node, allow_one, allow_loops, 0)

(***************************************************************************)
(* The source files considered.  Statements under test start at line 10;   *)
(* they stand at module level or in a function, after 0..MaxPre other      *)
(* statements.                                                             *)
(***************************************************************************)
PreStmts(pre) == [i \in 1..pre |-> Assign(<<Name("x", 1 + i)>>, Num("3", 1 + i), 1 + i)]

Wrap(stmts, pre, inDef) ==
    IF inDef THEN Module(<<FunctionDef("test", <<>>, PreStmts(pre) \o stmts, 1)>>)
    ELSE Module(PreStmts(pre) \o stmts)

Contexts == (0..MaxPre) \X BOOLEAN

InContexts(S) == {Wrap(stmts, c[1], c[2]) : stmts \in S, c \in Contexts}

Call0(f, ln) == Call(Name(f, ln), <<>>, <<>>, ln)
Call1(f, a, ln) == Call(Name(f, ln), <<a>>, <<>>, ln)

\* tests.py, test_multiple_attr_calls: n identical calls spells.dict_of(x) in one
\* list, on one line or one per line.
IdenticalCalls(n, spread) ==
    <<Expr(Call(Name("check", 10),
                <<List([i \in 1..n |->
                          LET ln == IF spread THEN 10 + i ELSE 10
                          IN  Call(Attribute(Name("spells", ln), "dict_of", ln),
                                   <<Name("x", ln)>>, <<>>, ln)], 10)>>,
                <<>>, 10), 10)>>

\* tests.py, test_args_with_source: calls nested in the arguments of calls, d deep,
\* on one line or each level one line further down.
RECURSIVE NestedCall(_, _, _)
NestedCall(d, spread, ln) ==
    IF d = 0 THEN Call(Name("f", ln), <<Num("1", ln)>>, <<>>, ln)
    ELSE Call(Name("g", ln),
              <<Name("a", ln), NestedCall(d - 1, spread, IF spread THEN ln + 1 ELSE ln)>>,
              <<>>, ln)

\* tests.py, test_semicolons: n statements tester(arg) joined with semicolons; for
\* statement j, lay[j][1] puts the argument on the line after the one the statement
\* starts on, and lay[j][2] puts the closing parenthesis, the semicolon and the
\* start of the next statement one line further down.
RECURSIVE Semicolons(_, _, _)
Semicolons(lay, j, ln) ==
    IF j > Len(lay) THEN <<>>
    ELSE LET argln == IF lay[j][1] THEN ln + 1 ELSE ln
             nextln == IF lay[j][2] THEN argln + 1 ELSE argln
         IN  <<Expr(Call1("tester", Num("1", argln), ln), ln)>> \o Semicolons(lay, j + 1, nextln)

Layouts(n) == [1..n -> BOOLEAN \X BOOLEAN]

\* tests.py, test_lambda.
LambdaFiles ==
    { \* (lambda x: (tester(x), tester(x)))(tester(3))
      <<Expr(Call(Lambda(Tuple(<<Call1("tester", Name("x", 10), 10),
                                 Call1("tester", Name("x", 10), 10)>>, 10), 10),
                  <<Call1("tester", Num("3", 10), 10)>>, <<>>, 10), 10)>>,
      \* (lambda: (lambda: tester(1))())()
      <<Expr(Call(Lambda(Call(Lambda(Call1("tester", Num("1", 10), 10), 10),
                              <<>>, <<>>, 10), 10),
                  <<>>, <<>>, 10), 10)>>,
      \* the same, the inner lambda on the next line
      <<Expr(Call(Lambda(Call(Lambda(Call1("tester", Num("1", 11), 11), 11),
                              <<>>, <<>>, 11), 10),
                  <<>>, <<>>, 10), 10)>>,
      \* (lambda: [tester(x) for x in tester([1, 2])])()
      <<Expr(Call(Lambda(ListComp(Call1("tester", Name("x", 10), 10),
                                  <<comprehension(Name("x", 10),
                                        Call1("tester", List(<<Num("1", 10)>>, 10), 10),
                                        <<>>)>>, 10), 10),
                  <<>>, <<>>, 10), 10)>> }

\* tests.py, test_list_comprehension.
ComprehensionFiles ==
    { \* str([tester(int(x)) for x in tester([1]) for _ in tester([2])])
      <<Expr(Call1("str",
                ListComp(Call1("tester", Call1("int", Name("x", 10), 10), 10),
                         <<comprehension(Name("x", 10),
                               Call1("tester", List(<<Num("1", 10)>>, 10), 10), <<>>),
                           comprehension(Name("_", 10),
                               Call1("tester", List(<<Num("2", 10)>>, 10), 10), <<>>)>>,
                         10), 10), 10)>>,
      \* str([[tester(x) for x in tester([1])] for _ in tester([2])])
      <<Expr(Call1("str",
                ListComp(ListComp(Call1("tester", Name("x", 10), 10),
                                  <<comprehension(Name("x", 10),
                                        Call1("tester", List(<<Num("1", 10)>>, 10), 10),
                                        <<>>)>>, 10),
                         <<comprehension(Name("_", 10),
                               Call1("tester", List(<<Num("2", 10)>>, 10), 10), <<>>)>>,
                         10), 10), 10)>>,
      \* the same, the inner comprehension on the next line
      <<Expr(Call1("str",
                ListComp(ListComp(Call1("tester", Name("x", 11), 11),
                                  <<comprehension(Name("x", 11),
                                        Call1("tester", List(<<Num("1", 11)>>, 11), 11),
                                        <<>>)>>, 11),
                         <<comprehension(Name("_", 12),
                               Call1("tester", List(<<Num("2", 12)>>, 12), 12), <<>>)>>,
                         10), 10), 10)>> }

\* tests.py, test_compound_statements, and compound statements written on one line.
CompoundFiles ==
    { \* for _ in tester([2]):
      \*     if tester(0):
      \*         pass
      \*     else:
      \*         tester(4)
      \* else:
      \*     tester(5)
      <<For(Name("_", 10), Call1("tester", List(<<Num("2", 10)>>, 10), 10),
            <<If(Call1("tester", Num("0", 11), 11), <<Pass(12)>>,
                 <<Expr(Call1("tester", Num("4", 14), 14), 14)>>, 11)>>,
            <<Expr(Call1("tester", Num("5", 16), 16), 16)>>, 10)>>,
      \* if tester(0): tester(1)
      <<If(Call1("tester", Num("0", 10), 10), <<Expr(Call1("tester", Num("1", 10), 10), 10)>>,
           <<>>, 10)>>,
      \* if tester(0): tester(1); tester(2)
      <<If(Call1("tester", Num("0", 10), 10),
           <<Expr(Call1("tester", Num("1", 10), 10), 10),
             Expr(Call1("tester", Num("2", 10), 10), 10)>>, <<>>, 10)>>,
      \* for x in tester(0): tester(x)
      <<For(Name("x", 10), Call1("tester", Num("0", 10), 10),
            <<Expr(Call1("tester", Name("x", 10), 10), 10)>>, <<>>, 10)>> }

\* tests.py, test_decorator, and a spell used as a bare decorator; a spell reached
\* through a subscript (__getitem__) rather than a call.
OtherFiles ==
    { \* @empty_decorator
      \* @decorator_with_args(tester('123'), x=int())
      \* @tester(list(2), returns=empty_decorator)
      \* def foo(): pass
      <<FunctionDef("foo",
            <<Name("empty_decorator", 10),
              Call(Name("decorator_with_args", 11), <<Call1("tester", Str("123", 11), 11)>>,
                   <<keyword("x", Call0("int", 11))>>, 11),
              Call(Name("tester", 12), <<Call1("list", Num("2", 12), 12)>>,
                   <<keyword("returns", Name("empty_decorator", 12))>>, 12)>>,
            <<Pass(14)>>, 10)>>,
      \* @my_spell
      \* def foo(): pass
      <<FunctionDef("foo", <<Name("my_spell", 10)>>, <<Pass(12)>>, 10)>>,
      \* @tester(lambda: 0)
      \* def foo(): tester(1)
      <<FunctionDef("foo",
            <<Call1("tester", Lambda(Num("0", 10), 10), 10)>>,
            <<Expr(Call1("tester", Num("1", 11), 11), 11)>>, 10)>>,
      \* x = table[tester(1)]
      <<Assign(<<Name("x", 10)>>,
               Subscript(Name("table", 10), Index(Call1("tester", Num("1", 10), 10)), 10), 10)>>,
      \* dict(x=tester)['x'](tester)(3)
      <<Expr(Call(Call(Subscript(Call(Name("dict", 10), <<>>,
                                      <<keyword("x", Name("tester", 10))>>, 10),
                                 Index(Str("x", 10)), 10),
                       <<Name("tester", 10)>>, <<>>, 10),
                  <<Num("3", 10)>>, <<>>, 10), 10)>> }

\* The shapes of one element of a binding target, named as node_name sees them: the
\* first three are the ones it names.
ElemKinds == {"name", "attr", "key", "index", "slice", "nested", "starred"}

Elem(kind, name, ln) ==
    CASE kind = "name" -> Name(name, ln)
      [] kind = "attr" -> Attribute(Attribute(Name("obj", ln), "part", ln), name, ln)
      [] kind = "key" -> Subscript(Name("d", ln), Index(Str(name, ln)), ln)
      [] kind = "index" -> Subscript(Name("d", ln), Index(Num("0", ln)), ln)
      [] kind = "slice" -> Subscript(Name("d", ln), Slice(Num("1", ln)), ln)
      [] kind = "nested" -> Tuple(<<Name(name, ln), Name("z", ln)>>, ln)
      [] kind = "starred" -> Starred(Name(name, ln), ln)

Letters == <<"a", "b", "c", "d", "e">>

\* A target of the given element kinds: the element itself for one kind, a tuple
\* otherwise.
Target(kinds, ln) ==
    IF Len(kinds) = 1 THEN Elem(kinds[1], Letters[1], ln)
    ELSE Tuple([i \in 1..Len(kinds) |-> Elem(kinds[i], Letters[i], ln)], ln)

\* The targets Python accepts: a starred element stands in a tuple, and only once.
KindLists ==
    {ks \in UNION {[1..n -> ElemKinds] : n \in 1..MaxNames} :
        /\ Cardinality({i \in 1..Len(ks) : ks[i] = "starred"}) <= 1
        /\ Len(ks) = 1 => ks[1] \notin {"starred", "nested"}}

RepKinds ==
    {<<"name">>, <<"name", "name">>, <<"attr", "key">>, <<"nested", "name">>,
     <<"starred", "name">>, <<"index">>}

OuterTargets == {Name("x", 10), Tuple(<<Name("x", 10), Name("y", 10)>>, 10)}

\* tests.py, test_unpack_keys_basic, test_unpack_keys_for_loop and
\* test_unpack_keys_list_comprehension: the spell f() as the value of an assignment,
\* the iterable of a for loop or of a comprehension clause, alone or inside another
\* binding construct.
TargetStmts ==
    \* TARGET = f()
    {<<Assign(<<Target(ks, 10)>>, Call0("f", 10), 10)>> : ks \in KindLists}
    \* [a, b] = f()
    \cup {<<Assign(<<List(<<Name("a", 10), Name("b", 10)>>, 10)>>, Call0("f", 10), 10)>>}
    \* a = b = f()   and   a, b = c, d = f()
    \cup {<<Assign(<<Name("a", 10), Name("b", 10)>>, Call0("f", 10), 10)>>,
          <<Assign(<<Tuple(<<Name("a", 10), Name("b", 10)>>, 10),
                     Tuple(<<Name("c", 10), Name("d", 10)>>, 10)>>, Call0("f", 10), 10)>>}
    \* for TARGET in f(): pass
    \cup {<<For(Target(ks, 10), Call0("f", 10), <<Pass(11)>>, <<>>, 10)>> : ks \in RepKinds}
    \* [v for TARGET in f()]
    \cup {<<Expr(ListComp(Name("v", 10),
                          <<comprehension(Target(ks, 10), Call0("f", 10), <<>>)>>, 10), 10)>> :
             ks \in RepKinds}
    \* OUTER = [v for TARGET in f()]
    \cup {<<Assign(<<o>>, ListComp(Name("v", 10),
                                  <<comprehension(Target(ks, 10), Call0("f", 10), <<>>)>>,
                                  10), 10)>> : ks \in RepKinds, o \in OuterTargets}
    \* for OUTER in it:
    \*     TARGET = f()
    \cup {<<For(o, Name("it", 10), <<Assign(<<Target(ks, 11)>>, Call0("f", 11), 11)>>,
               <<>>, 10)>> : ks \in RepKinds, o \in OuterTargets}
    \* for OUTER in it:
    \*     a = b = f()
    \cup {<<For(o, Name("it", 10),
               <<Assign(<<Name("a", 11), Name("b", 11)>>, Call0("f", 11), 11)>>,
               <<>>, 10)>> : o \in OuterTargets}
    \* [v for OUTER in [w for TARGET in f()]]
    \cup {<<Expr(ListComp(Name("v", 10),
                 <<comprehension(o,
                       ListComp(Name("w", 10),
                                <<comprehension(Target(ks, 10), Call0("f", 10), <<>>)>>, 10),
                       <<>>)>>, 10), 10)>> : ks \in RepKinds, o \in OuterTargets}

TargetFiles == {Wrap(stmts, 0, inDef) : stmts \in TargetStmts, inDef \in BOOLEAN}

MatcherStmts ==
    {IdenticalCalls(n, sp) : n \in 2..MaxCalls, sp \in BOOLEAN}
    \cup {<<Expr(NestedCall(d, sp, 10), 10)>> : d \in 1..MaxDepth, sp \in BOOLEAN}
    \cup UNION {{Semicolons(lay, 1, 10) : lay \in Layouts(n)} : n \in 2..MaxStmts}
    \cup LambdaFiles \cup ComprehensionFiles \cup CompoundFiles \cup OtherFiles

Files == InContexts(MatcherStmts) \cup TargetFiles

(***************************************************************************)
(* The running program: the file compiled as a whole.  A spell can be      *)
(* invoked from a call instruction of a Call node, from the CALL_FUNCTION  *)
(* that applies a decorator, and from a BINARY_SUBSCR (a spell installed   *)
(* as __getitem__).  The frame carries what core.py reads of it; origin is *)
(* the Call node whose call instruction the frame is executing (0 when the *)
(* instruction belongs to no Call node) and is read by no operation.       *)
(***************************************************************************)
RealCodes(src) == (CHOOSE val \in {( AllCodes(CompileModule(h, h[1].f[1]))) : h \in {Parse(src)}} : TRUE)

Invocable(x) ==
    \/ IsCallOp(x) /\ (x.node # 0 \/ x.arg = "<decorator>")
    \/ x.op = "BINARY_SUBSCR"

Positions(codes) ==
        {[frame |-> [name |-> codes[c].name, first |-> codes[c].first,
                     lasti |-> Offset(i), lineno |-> codes[c].i[i].line],
          origin |-> IF IsCallOp(codes[c].i[i]) THEN codes[c].i[i].node ELSE 0] :
            <<c, i>> \in {ci \in UNION {{c} \X (1..Len(codes[c].i)) : c \in 1..Len(codes)} :
                            Invocable(codes[ci[1]].i[ci[2]])}}

NoFrame == [name |-> "", first |-> 0, lasti |-> 0, lineno |-> 0]

(***************************************************************************)
(* file_info = lru_cache()(FileInfo).  A file name is its sequence of      *)
(* characters.                                                             *)
(***************************************************************************)
\* The maxsize lru_cache() takes when none is given.
maxsize == 128

MaxModules == 128

SourcePath == <<"a">>

Digits == <<"0", "1", "2", "3", "4", "5", "6", "7", "8", "9">>

\* The file name of the i-th other module: m000, m001, ...
ModulePath(i) ==
    <<"m", Digits[((i \div 100) % 10) + 1], Digits[((i \div 10) % 10) + 1], Digits[(i % 10) + 1]>>

\* A cache that never drops an entry.
lru_cache_unbounded(keys, key) ==
    SelectSeq(keys, LAMBDA k : k # key) \o <<key>>

\* The keys of the cache after a call with the given key: a key that is there
\* becomes the most recently used; a new one is added, and when the cache is full
\* the least recently used one is dropped for it.
lru_cache(keys, key) ==
    IF key \in Range(keys) THEN SelectSeq(keys, LAMBDA k : k # key) \o <<key>>
    ELSE IF Len(keys) >= maxsize THEN Tail(keys) \o <<key>>
    ELSE keys \o <<key>>

NoCallSite == [frame |-> NoFrame, info |-> 0, node |-> 0]

(***************************************************************************)
(* The frames between a spell and the file under study: Spell.__call__     *)
(* starts at its caller and goes outward.  A code object is what code      *)
(* objects are compared by, its name and first line among them and not its *)
(* file name.                                                              *)
(***************************************************************************)
MaxFrames == 2

\* class B:  def foo(self, **kwargs): self.a.foo(**kwargs)     in b.py, and the
\* same text on the same lines in c.py; def __getattr__ in b.py; code run by exec.
Wrappers ==
    {[fn |-> "B.foo", function |-> TRUE, code |-> [name |-> "foo", first |-> 12],
      filename |-> <<"b">>],
     [fn |-> "C.foo", function |-> TRUE, code |-> [name |-> "foo", first |-> 12],
      filename |-> <<"c">>],
     [fn |-> "B.__getattr__", function |-> TRUE, code |-> [name |-> "__getattr__", first |-> 5],
      filename |-> <<"b">>],
     [fn |-> "exec", function |-> FALSE, code |-> [name |-> "<module>", first |-> 1],
      filename |-> <<"<", "s", "t", "r", "i", "n", "g", ">">>]}

\* The frames the call can come through, innermost first.
Stacks(W) == UNION {[1..n -> W] : n \in 0..MaxFrames}

BaseFrame(frame) ==
    [fn |-> "", function |-> TRUE, code |-> [name |-> frame.name, first |-> frame.first],
     filename |-> SourcePath]

startswith(str, prefix) ==
    /\ Len(str) >= Len(prefix)
    /\ SubSeq(str, 1, Len(prefix)) = prefix

\* The condition of the while loop of Spell.__call__.
Skips(frame, excluded) ==
    frame.code \in excluded \/ startswith(frame.filename, <<"<">>)

\* The number of frames the loop passes: Len(frames) when it runs off the stack.
RECURSIVE Walked(_, _)
Walked(frames, excluded) ==
    IF frames = <<>> THEN 0
    ELSE IF Skips(Head(frames), excluded) THEN 1 + Walked(Tail(frames), excluded)
    ELSE 0

Idle == [pc |-> "idle", frame |-> NoFrame, origin |-> 0, stmts |-> <<>>, a_stmt |-> 0,
         body |-> <<0, 0>>, off |-> 0, idx |-> -1, calls |-> <<>>, i |-> 0,
         saved |-> <<>>, instructions |-> <<>>, result |-> 0, err |-> "",
         info |-> 0, stack |-> <<>>, skipped |-> 0,
         x |-> "", value |-> "", at |-> 0, count |-> 0, yields |-> <<>>,
         switcher |-> <<>>, entry |-> 0, alt |-> 0, default |-> "", evaluated |-> <<>>,
         made |-> <<>>,
         given |-> [d |-> {}, ds |-> <<>>, default |-> FALSE, prefix |-> <<>>,
                    swapcase |-> FALSE]]

Fail(r, e) == [r EXCEPT !.pc = "failed", !.err = e]

Init ==
    /\ source \in Files
    /\ heap = Parse(source) \o MarkerNodes(Size(source))
    /\ nodes_by_line = NodesByLine(heap)
    /\ contexts = ContextParents(heap)
    /\ th = [t \in Threads |-> Idle]
    /\ target = NoTarget
    /\ file_info = <<SourcePath>>
    /\ parsed = 1
    /\ modules = 0
    /\ kept = NoCallSite
    /\ _excluded_codes = {}
    /\ wrappers = {}
    /\ decorated = {}

\* Spell.__call__ up to _call_at: the walk from the caller's frame outward, then
\* FileInfo.for_frame, which builds a FileInfo when the cache has none for the file.
\* A frame of another file is resolved against that file.
Invoke(t) ==
    /\ th[t].pc = "idle"
    /\ \E codes \in {RealCodes(source)} : \E p \in Positions(codes) :
       \E stack \in Stacks(wrappers) :
       \E skipped \in {Walked(stack \o <<BaseFrame(p.frame)>>, _excluded_codes)} :
          IF skipped > Len(stack)
          THEN /\ th' = [th EXCEPT ![t] = [Fail(Idle, "AttributeError") EXCEPT
                                              !.stack = stack, !.skipped = skipped]]
               /\ UNCHANGED <<cache, heap, nodes_by_line, contexts>>
          ELSE IF skipped < Len(stack)
          THEN /\ th' = [th EXCEPT ![t] = [Idle EXCEPT !.pc = "elsewhere",
                                                       !.stack = stack, !.skipped = skipped]]
               /\ file_info' = lru_cache(file_info, stack[skipped + 1].filename)
               /\ IF stack[skipped + 1].filename \in Range(file_info)
                  THEN UNCHANGED contexts
                  ELSE \E stores \in BOOLEAN : contexts' = OtherParents(contexts, stores)
               /\ UNCHANGED <<parsed, heap, nodes_by_line>>
          ELSE /\ file_info' = lru_cache(file_info, SourcePath)
               /\ IF SourcePath \in Range(file_info)
                  THEN UNCHANGED <<parsed, heap, nodes_by_line, contexts>>
                  ELSE /\ parsed' = parsed + 1
                       /\ heap' = Parse(source) \o MarkerNodes(Size(source))
                       /\ nodes_by_line' = NodesByLine(heap')
                       /\ contexts' = ContextParents(heap')
               /\ th' = [th EXCEPT ![t] = [Idle EXCEPT !.pc = "call_at", !.frame = p.frame,
                                                       !.origin = p.origin, !.stack = stack,
                                                       !.skipped = skipped, !.info = parsed']]
    /\ UNCHANGED <<source, target, program>>

\* FileInfo._call_at and CallFinder.__init__ up to make_sandbox_module.  Reading
\* nodes_by_line (a defaultdict) at a missing line adds the line with an empty list.
CallAt(t) ==
    /\ th[t].pc = "call_at"
    /\ \E line \in {th[t].frame.lineno} :
       \E by_line \in {IF line \in DOMAIN nodes_by_line THEN nodes_by_line
                        ELSE [l \in DOMAIN nodes_by_line \cup {line} |->
                                IF l = line THEN <<>> ELSE nodes_by_line[l]]} :
       \E stmts \in {{statement_containing_node(heap, n) : n \in Range(by_line[line])}} :
           /\ nodes_by_line' = by_line
           /\ IF stmts = {} THEN th' = [th EXCEPT ![t] = Fail(@, "IndexError")]
              ELSE \E a_stmt \in stmts :
                     LET bodies == BodiesHolding(heap, a_stmt)
                         body == CHOOSE b \in bodies : TRUE
                     IN  IF Cardinality(bodies) # 1
                         THEN th' = [th EXCEPT ![t] = Fail(@, "only")]
                         ELSE IF ~Sortable(heap, body, stmts)
                         THEN th' = [th EXCEPT ![t] = Fail(@, "ValueError")]
                         ELSE th' = [th EXCEPT ![t] =
                                 [@ EXCEPT !.a_stmt = a_stmt, !.body = body,
                                           !.stmts = SortByBody(heap, body, stmts),
                                           !.pc = IF th[t].frame.name \in special_code_names
                                                  THEN "baseline" ELSE "offset_enter"]]
    /\ UNCHANGED <<source, heap, contexts, target, cache, program>>

\* stmt_offset, entering tweak_list(body): the copy is taken and the first
\* statement of the group is replaced by the marker expression [sentinel].
OffsetEnter(t) ==
    /\ th[t].pc = "offset_enter"
    /\ LET body == th[t].body
           lst == BodyList(heap, body)
       IN  IF th[t].stmts[1] \notin Range(lst)
           THEN /\ th' = [th EXCEPT ![t] = Fail(@, "ValueError")]
                /\ heap' = heap
           ELSE /\ heap' = [heap EXCEPT ![body[1]].f[body[2]] =
                               [@ EXCEPT ![IndexOf(lst, th[t].stmts[1])] = Syn(heap, t, 3)]]
                /\ th' = [th EXCEPT ![t] = [@ EXCEPT !.saved = lst, !.pc = "offset_compile"]]
    /\ UNCHANGED <<source, nodes_by_line, contexts, target, cache, program>>

\* stmt_offset inside the with block: the containing block is compiled and the
\* offset of the instruction loading the sentinel is taken.
OffsetCompile(t) ==
    /\ th[t].pc = "offset_compile"
    /\ \E block \in {get_containing_block(heap, th[t].a_stmt)} :
       \E got \in {BlockInstructions(heap, block)} :
       \E at \in {SentinelAt(got.i)} :
           th' = [th EXCEPT ![t] =
                 IF heap[block].k = "Module" /\ th[t].frame.name # "<module>"
                 THEN [@ EXCEPT !.err = "assert", !.pc = "offset_exit"]
                 ELSE IF ~got.ok \/ Cardinality(at) # 1
                 THEN [@ EXCEPT !.err = "only", !.pc = "offset_exit"]
                 ELSE [@ EXCEPT !.off = SentinelOffset(got.i), !.pc = "offset_exit"]]
    /\ UNCHANGED <<source, heap, nodes_by_line, contexts, target, cache, program>>

\* Leaving tweak_list(body): lst[:] = original, whatever happened inside.
OffsetExit(t) ==
    /\ th[t].pc = "offset_exit"
    /\ heap' = tweak_list(heap, th[t].body[1], th[t].body[2], th[t].saved)
    /\ th' = [th EXCEPT ![t] =
                IF th[t].err # "" THEN [@ EXCEPT !.pc = "failed", !.saved = <<>>]
                ELSE [@ EXCEPT !.pc = "baseline", !.saved = <<>>]]
    /\ UNCHANGED <<source, nodes_by_line, contexts, target, cache, program>>

\* get_call_instruction_index on the unmodified group, then the candidate calls.
Baseline(t) ==
    /\ th[t].pc = "baseline"
    /\ \E got \in {compile_instructions(heap, th[t].stmts, th[t].frame)} :
       \E at \in {CallIndexAt(got.i, th[t].frame.lasti - th[t].off)} :
           th' = [th EXCEPT ![t] =
                 IF ~got.ok \/ Cardinality(at) # 1 THEN Fail(@, "only")
                 ELSE [@ EXCEPT !.idx = CHOOSE i \in at : TRUE,
                                !.calls = CandidateCalls(heap, th[t].stmts),
                                !.i = 1, !.pc = "loop"]]
    /\ UNCHANGED <<source, heap, nodes_by_line, contexts, target, cache, program>>

\* The loop head and the entry of tweak_list(call.keywords): the copy is taken and
\* the marker keyword appended.  With no candidate left, CallFinder has no result
\* attribute and _call_at fails reading it.
TrialEnter(t) ==
    /\ th[t].pc = "loop"
    /\ IF th[t].i > Len(th[t].calls)
       THEN /\ th' = [th EXCEPT ![t] = Fail(@, "AttributeError")]
            /\ heap' = heap
       ELSE LET call == th[t].calls[th[t].i]
            IN  /\ heap' = [heap EXCEPT ![call].f[3] = Append(@, Syn(heap, t, 1))]
                /\ th' = [th EXCEPT ![t] = [@ EXCEPT !.saved = heap[call].f[3],
                                                     !.pc = "trial_compile"]]
    /\ UNCHANGED <<source, nodes_by_line, contexts, target, cache, program>>

\* compile_instructions() inside the with block.
TrialCompile(t) ==
    /\ th[t].pc = "trial_compile"
    /\ \E got \in {compile_instructions(heap, th[t].stmts, th[t].frame)} :
           th' = [th EXCEPT ![t] =
                 IF got.ok THEN [@ EXCEPT !.instructions = got.i, !.pc = "trial_exit"]
                 ELSE [@ EXCEPT !.err = "only", !.pc = "trial_exit"]]
    /\ UNCHANGED <<source, heap, nodes_by_line, contexts, target, cache, program>>

\* A matcher that takes the first candidate whose marker shows up.
TrialMatchesAny(instructions, at, idx) == TRUE

\* Whether the candidate whose marker gave these instructions is the executing call.
TrialMatches(instructions, at, idx) ==
    CallIndexAfter(instructions, CHOOSE a \in at : TRUE) = idx

\* Leaving tweak_list(call.keywords), then the rest of the loop body.
TrialExit(t) ==
    /\ th[t].pc = "trial_exit"
    /\ \E call \in {th[t].calls[th[t].i]} :
       \E at \in {SentinelAt(th[t].instructions)} :
       \E r \in {[th[t] EXCEPT !.saved = <<>>, !.instructions = <<>>]} :
           /\ heap' = tweak_list(heap, call, 3, th[t].saved)
           /\ th' = [th EXCEPT ![t] =
                 IF th[t].err # "" THEN [r EXCEPT !.pc = "failed"]
                 ELSE IF at = {} THEN [r EXCEPT !.i = @ + 1, !.pc = "loop"]
                 ELSE IF Cardinality(at) # 1 THEN Fail(r, "only")
                 ELSE IF CallIndexAfter(th[t].instructions, CHOOSE a \in at : TRUE) = -1
                 THEN Fail(r, "IndexError")
                 ELSE IF TrialMatches(th[t].instructions, at, th[t].idx)
                 THEN [r EXCEPT !.result = call, !.pc = "done"]
                 ELSE [r EXCEPT !.i = @ + 1, !.pc = "loop"]]
    /\ UNCHANGED <<source, nodes_by_line, contexts, target, cache, program>>

\* The spell's body asks FrameInfo.assigned_names about the resolved call.
Consume(t) ==
    /\ th[t].pc = "done"
    /\ \E allow_one \in BOOLEAN, allow_loops \in BOOLEAN :
       \E out \in {assigned_names(heap, th[t].result, allow_one, allow_loops)} :
          target' = [call |-> th[t].result, allow_one |-> allow_one,
                     allow_loops |-> allow_loops, err |-> out.err, names |-> out.names,
                     node |-> out.node, steps |-> out.steps]
    /\ th' = [th EXCEPT ![t] = [@ EXCEPT !.pc = "consumed"]]
    /\ UNCHANGED <<source, heap, nodes_by_line, contexts, cache, program>>

\* The spell returns, or the failure propagates to the caller.
Return(t) ==
    /\ th[t].pc \in {"done", "failed", "consumed", "elsewhere", "returned"}
    /\ th' = [th EXCEPT ![t] = Idle]
    /\ target' = NoTarget
    /\ UNCHANGED <<source, heap, nodes_by_line, contexts, cache, program>>

Step(t) ==
    \/ Invoke(t)
    \/ CallAt(t)
    \/ OffsetEnter(t)
    \/ OffsetCompile(t)
    \/ OffsetExit(t)
    \/ Baseline(t)
    \/ TrialEnter(t)
    \/ TrialCompile(t)
    \/ TrialExit(t)
    \/ Consume(t)
    \/ Return(t)

Next == \E t \in Solo : Step(t)

Spec == Init /\ [][Next]_vars

\* The steps of one resolution, from the spell call to the return of _call_at.
Resolve(t) ==
    \/ Invoke(t)
    \/ CallAt(t)
    \/ OffsetEnter(t)
    \/ OffsetCompile(t)
    \/ OffsetExit(t)
    \/ Baseline(t)
    \/ TrialEnter(t)
    \/ TrialCompile(t)
    \/ TrialExit(t)

(***************************************************************************)
(* A program of many modules.  Each other module calls a spell once, one   *)
(* module after the other, between the spell calls of the file under study;*)
(* a caller may hold on to the call site it was given.                     *)
(***************************************************************************)
\* A spell called from the next other module: FileInfo.for_frame for its file.
OtherModule(t) ==
    /\ th[t].pc = "idle"
    /\ modules < MaxModules
    /\ modules' = modules + 1
    /\ file_info' = lru_cache(file_info, ModulePath(modules + 1))
    /\ \E stores \in BOOLEAN : contexts' = OtherParents(contexts, stores)
    /\ UNCHANGED <<source, heap, nodes_by_line, th, target, parsed, kept,
                   _excluded_codes, wrappers, decorated>>

\* The caller keeps the first call site it is given: the FileInfo and the node.
Remember(t) ==
    /\ th[t].pc = "done"
    /\ kept = NoCallSite
    /\ kept' = [frame |-> th[t].frame, info |-> th[t].info, node |-> th[t].result]
    /\ UNCHANGED <<source, heap, nodes_by_line, contexts, th, target, cache, modules,
                   _excluded_codes, wrappers, decorated>>

\* tester(1); tester(1)
CacheFiles == {Wrap(Semicolons(<<<<FALSE, FALSE>>, <<FALSE, FALSE>>>>, 1, 10), 0, FALSE)}

CacheInit ==
    /\ source \in CacheFiles
    /\ heap = Parse(source) \o MarkerNodes(Size(source))
    /\ nodes_by_line = NodesByLine(heap)
    /\ contexts = ContextParents(heap)
    /\ th = [t \in Threads |-> Idle]
    /\ target = NoTarget
    /\ file_info = <<SourcePath>>
    /\ parsed = 1
    /\ modules = 0
    /\ kept = NoCallSite
    /\ _excluded_codes = {}
    /\ wrappers = {}
    /\ decorated = {}

CacheNext == \E t \in Solo : Resolve(t) \/ Remember(t) \/ Return(t) \/ OtherModule(t)

CacheSpec == CacheInit /\ [][CacheNext]_vars

(***************************************************************************)
(* A program that reaches its spells through functions of other files,     *)
(* some of which it passes to no_spells.                                   *)
(***************************************************************************)
\* no_spells(func): the code of func is excluded and func is returned.
no_spells(t, func) ==
    /\ th[t].pc = "idle"
    /\ func.function
    /\ _excluded_codes' = _excluded_codes \cup {func.code}
    /\ decorated' = decorated \cup {func.fn}
    /\ wrappers' = (wrappers \ {func}) \cup {func}
    /\ UNCHANGED <<source, heap, nodes_by_line, contexts, th, target, cache, modules, kept>>

\* a, b = f()
FrameFiles == {Wrap(<<Assign(<<Target(<<"name", "name">>, 10)>>, Call0("f", 10), 10)>>, 0, TRUE)}

FrameInit ==
    /\ source \in FrameFiles
    /\ heap = Parse(source) \o MarkerNodes(Size(source))
    /\ nodes_by_line = NodesByLine(heap)
    /\ contexts = ContextParents(heap)
    /\ th = [t \in Threads |-> Idle]
    /\ target = NoTarget
    /\ file_info = <<SourcePath>>
    /\ parsed = 1
    /\ modules = 0
    /\ kept = NoCallSite
    /\ _excluded_codes = {}
    /\ wrappers = Wrappers
    /\ decorated = {}

FrameNext ==
    \E t \in Solo : Resolve(t) \/ Return(t) \/ \E func \in wrappers : no_spells(t, func)

FrameSpec == FrameInit /\ [][FrameNext]_vars

(***************************************************************************)
(* spells.maybe.  The statements are r = maybe(n) followed by up to        *)
(* MaxChain of .a, () and [0], alone or as an argument, a keyword          *)
(* argument, a subscript's index or a list's element; n is None or an      *)
(* object.  When maybe has returned, the interpreter goes on with the      *)
(* expressions around the call: an attribute access, a subscript or a call *)
(* of a _Nothing runs _Nothing.__op; anything else takes the value as it   *)
(* is.                                                                     *)
(***************************************************************************)
MaxChain == 3

\* e followed by .a, () or [0] for each of kinds
RECURSIVE Chained(_, _, _)
Chained(e, kinds, ln) ==
    IF kinds = <<>> THEN e
    ELSE Chained(CASE Head(kinds) = "Attribute" -> Attribute(e, "a", ln)
                   [] Head(kinds) = "Call" -> Call(e, <<>>, <<>>, ln)
                   [] Head(kinds) = "Subscript" -> Subscript(e, Index(Num("0", ln)), ln),
                 Tail(kinds), ln)

\* e, func(e), func(k=e), d[e] or [e]
Enclose(encl, e, ln) ==
    CASE encl = "value" -> e
      [] encl = "argument" -> Call1("func", e, ln)
      [] encl = "keyword" -> Call(Name("func", ln), <<>>, <<keyword("k", e)>>, ln)
      [] encl = "index" -> Subscript(Name("d", ln), Index(e), ln)
      [] encl = "element" -> List(<<e>>, ln)

MaybeFiles ==
    {Wrap(<<Assign(<<Name("r", 10)>>,
                   Enclose(encl, Chained(Call1("maybe", Name("n", 10), 10), kinds, 10), 10),
                   10)>>, 0, inDef) :
        kinds \in UNION {[1..k -> {"Attribute", "Call", "Subscript"}] : k \in 0..MaxChain},
        encl \in {"value", "argument", "keyword", "index", "element"}, inDef \in BOOLEAN}

\* A condition that takes every Call parent for a call of the node.
ChainParentAnyCall(h, parent, node) ==
    \/ h[parent].k = "Attribute"
    \/ h[parent].k = "Call"
    \/ h[parent].k = "Subscript" /\ h[parent].f[1][1] = node

\* The condition of maybe's loop on node.parent.
ChainParent(h, parent, node) ==
    \/ h[parent].k = "Attribute"
    \/ h[parent].k = "Call" /\ h[parent].f[1][1] = node
    \/ h[parent].k = "Subscript" /\ h[parent].f[1][1] = node

\* The count maybe's loop ends with, started at node with count so far.
RECURSIVE ChainCount(_, _, _)
ChainCount(h, node, count) ==
    IF h[node].parent = 0 \/ ~ChainParent(h, h[node].parent, node) THEN count
    ELSE ChainCount(h, h[node].parent, count + 1)

\* The expression above node gets an attribute of node's value, calls it or
\* subscripts it: on a _Nothing, __getattribute__, __call__ or __getitem__.
Operates(h, node) ==
    /\ h[node].parent # 0
    /\ LET p == h[h[node].parent]
       IN  \/ p.k = "Attribute" /\ p.f[1] = <<node>>
           \/ p.k = "Call" /\ p.f[1] = <<node>>
           \/ p.k = "Subscript" /\ p.f[1] = <<node>>

CalleeName(h, call) ==
    IF call = 0 THEN "" ELSE h[h[call].f[1][1]].s

\* The body of maybe, for the resolved call frame_info.call.
maybe(t) ==
    /\ th[t].pc = "done"
    /\ CalleeName(heap, th[t].origin) = "maybe"
    /\ \E x \in {"None", "object"} :
       \E count \in {IF x # "None" THEN 0 ELSE ChainCount(heap, th[t].result, 0)} :
          th' = [th EXCEPT ![t] = [@ EXCEPT
                    !.pc = "chain", !.x = x, !.at = th[t].origin, !.count = count,
                    !.value = IF count = 0 THEN x ELSE "_Nothing", !.yields = <<>>]]
    /\ UNCHANGED <<source, heap, nodes_by_line, contexts, target, cache, program>>

\* The next thing done with the value of the expression at: _Nothing.__op when it
\* is a _Nothing and is operated on, TypeError or AttributeError when it is None
\* and is operated on; otherwise the value is that of the chain.
Operate(t) ==
    /\ th[t].pc = "chain"
    /\ IF ~Operates(heap, th[t].at) \/ th[t].value = "object"
       THEN th' = [th EXCEPT ![t] = [@ EXCEPT !.pc = "returned"]]
       ELSE IF th[t].value = "None"
       THEN th' = [th EXCEPT ![t] = Fail(@, "TypeError")]
       ELSE \E count \in {th[t].count - 1} : \E out \in {IF count = 0 THEN "None" ELSE "_Nothing"} :
               th' = [th EXCEPT ![t] = [@ EXCEPT
                         !.count = count, !.value = out, !.at = heap[th[t].at].parent,
                         !.yields = @ \o <<out>>]]
    /\ UNCHANGED <<source, heap, nodes_by_line, contexts, target, cache, program>>

MaybeInit ==
    /\ source \in MaybeFiles
    /\ heap = Parse(source) \o MarkerNodes(Size(source))
    /\ nodes_by_line = NodesByLine(heap)
    /\ contexts = ContextParents(heap)
    /\ th = [t \in Threads |-> Idle]
    /\ target = NoTarget
    /\ file_info = <<SourcePath>>
    /\ parsed = 1
    /\ modules = 0
    /\ kept = NoCallSite
    /\ _excluded_codes = {}
    /\ wrappers = {}
    /\ decorated = {}

MaybeNext == \E t \in Solo : Resolve(t) \/ maybe(t) \/ Operate(t) \/ Return(t)

MaybeSpec == MaybeInit /\ [][MaybeNext]_vars

(***************************************************************************)
(* spells.switch.  The statements are result = spells.switch(2, lambda:    *)
(* {key: value, ...}) with up to MaxKeys entries, with and without         *)
(* default=-1; a key is 1, bar(), {{2, bar()}} or {2, bar()}, a value 10   *)
(* or spam().  What a key or a value evaluates to is the program's: a key  *)
(* equals val, differs from it or raises; a value is an object or raises.  *)
(* Each evaluation is recorded, in order, in evaluated.                    *)
(***************************************************************************)
MaxKeys == 2

\* 1, 10, bar(), spam(), {{2, bar()}} or {2, bar()}
Item(kind, ln) ==
    CASE kind \in {"1", "10"} -> Num(kind, ln)
      [] kind \in {"bar", "spam"} -> Call0(kind, ln)
      [] kind = "alts" -> Set(<<Set(<<Num("2", ln), Call0("bar", ln)>>, ln)>>, ln)
      [] kind = "set" -> Set(<<Num("2", ln), Call0("bar", ln)>>, ln)

\* The second argument is lambda: {...}, {...} or lambda: [{...}].
Switch(shape, entries, default, ln) ==
    LET dict == Dict([i \in 1..Len(entries) |-> Item(entries[i][1], ln)],
                     [i \in 1..Len(entries) |-> Item(entries[i][2], ln)], ln)
        cases == CASE shape = "lambda" -> Lambda(dict, ln)
                   [] shape = "dict" -> dict
                   [] shape = "list" -> Lambda(List(<<dict>>, ln), ln)
    IN  Assign(<<Name("result", ln)>>,
               Call(Attribute(Name("spells", ln), "switch", ln), <<Num("2", ln), cases>>,
                    IF default THEN <<keyword("default", Num("-1", ln))>> ELSE <<>>, ln), ln)

SwitchFiles ==
    {Wrap(<<Switch("lambda", entries, default, 10)>>, 0, TRUE) :
        entries \in UNION {[1..n -> {"1", "bar", "alts", "set"} \X {"10", "spam"}] :
                             n \in 0..MaxKeys},
        default \in BOOLEAN}
    \cup {Wrap(<<Switch(shape, <<<<"1", "10">>, <<"bar", "spam">>>>, FALSE, 10)>>, 0, TRUE) :
             shape \in {"dict", "list"}}

\* A _switcher that takes the elements of every set for alternatives.
_switcher_sets(h, cases) ==
    IF ~(h[cases].k = "Lambda" /\ h[h[cases].f[1][1]].k = "Dict")
    THEN [err |-> "TypeError", result |-> <<>>]
    ELSE LET body == h[h[cases].f[1][1]]
         IN  [err |-> "",
              result |-> [i \in 1..Len(body.f[1]) |->
                  LET key == body.f[1][i]
                  IN  IF h[key].k = "Set"
                      THEN [tuple |-> TRUE, key_code |-> h[key].f[1],
                            value_code |-> body.f[2][i]]
                      ELSE [tuple |-> FALSE, key_code |-> <<key>>,
                            value_code |-> body.f[2][i]]]]

\* _switcher(cases, f_code): the code of each key and value is the node compiled;
\* key_code is a tuple for a set whose first element is a set.
_switcher(h, cases) ==
    IF ~(h[cases].k = "Lambda" /\ h[h[cases].f[1][1]].k = "Dict")
    THEN [err |-> "TypeError", result |-> <<>>]
    ELSE LET body == h[h[cases].f[1][1]]
         IN  [err |-> "",
              result |-> [i \in 1..Len(body.f[1]) |->
                  LET key == body.f[1][i]
                  IN  IF h[key].k = "Set" /\ h[h[key].f[1][1]].k = "Set"
                      THEN [tuple |-> TRUE, key_code |-> h[h[key].f[1][1]].f[1],
                            value_code |-> body.f[2][i]]
                      ELSE [tuple |-> FALSE, key_code |-> <<key>>,
                            value_code |-> body.f[2][i]]]]

\* switch up to its loop: _switcher for the second argument of the resolved call.
switch(t) ==
    /\ th[t].pc = "done"
    /\ CalleeName(heap, th[t].origin) = "switch"
    /\ \E call \in {heap[th[t].result]} : \E sw \in {_switcher(heap, call.f[2][2])} :
          IF sw.err # "" THEN th' = [th EXCEPT ![t] = Fail(@, sw.err)]
          ELSE th' = [th EXCEPT ![t] = [@ EXCEPT
                        !.pc = "cases", !.switcher = sw.result, !.entry = 1, !.alt = 1,
                        !.evaluated = <<>>,
                        !.default = IF \E w \in Range(call.f[3]) : heap[w].s = "default"
                                    THEN "default" ELSE "_NO_DEFAULT"]]
    /\ UNCHANGED <<source, heap, nodes_by_line, contexts, target, cache, program>>

\* check(k) for the next key code: ev(k) == val.  Of a tuple, any(map(check, ...))
\* takes the codes one by one and stops at the first that is equal.
check(t) ==
    /\ th[t].pc = "cases"
    /\ th[t].entry <= Len(th[t].switcher)
    /\ \E out \in {"equal", "differs", "raises"} :
       \E case \in {th[t].switcher[th[t].entry]} :
       \E seen \in {Append(th[t].evaluated, [node |-> case.key_code[th[t].alt], out |-> out])} :
          th' = [th EXCEPT ![t] =
                    IF out = "raises" THEN [Fail(@, "Exception") EXCEPT !.evaluated = seen]
                    ELSE IF out = "equal" THEN [@ EXCEPT !.pc = "value", !.evaluated = seen]
                    ELSE IF th[t].alt < Len(case.key_code)
                    THEN [@ EXCEPT !.alt = @ + 1, !.evaluated = seen]
                    ELSE [@ EXCEPT !.entry = @ + 1, !.alt = 1, !.evaluated = seen]]
    /\ UNCHANGED <<source, heap, nodes_by_line, contexts, target, cache, program>>

\* return ev(value_code)
ev(t) ==
    /\ th[t].pc = "value"
    /\ \E out \in {"object", "raises"} :
       \E node \in {th[t].switcher[th[t].entry].value_code} :
       \E seen \in {Append(th[t].evaluated, [node |-> node, out |-> out])} :
          th' = [th EXCEPT ![t] =
                    IF out = "raises" THEN [Fail(@, "Exception") EXCEPT !.evaluated = seen]
                    ELSE [@ EXCEPT !.pc = "returned", !.value = "value", !.at = node,
                                   !.evaluated = seen]]
    /\ UNCHANGED <<source, heap, nodes_by_line, contexts, target, cache, program>>

\* After the loop: KeyError(val) without a default, else the default.
NoMatch(t) ==
    /\ th[t].pc = "cases"
    /\ th[t].entry > Len(th[t].switcher)
    /\ th' = [th EXCEPT ![t] =
                 IF th[t].default = "_NO_DEFAULT" THEN Fail(@, "KeyError")
                 ELSE [@ EXCEPT !.pc = "returned", !.value = "default"]]
    /\ UNCHANGED <<source, heap, nodes_by_line, contexts, target, cache, program>>

SwitchInit ==
    /\ source \in SwitchFiles
    /\ heap = Parse(source) \o MarkerNodes(Size(source))
    /\ nodes_by_line = NodesByLine(heap)
    /\ contexts = ContextParents(heap)
    /\ th = [t \in Threads |-> Idle]
    /\ target = NoTarget
    /\ file_info = <<SourcePath>>
    /\ parsed = 1
    /\ modules = 0
    /\ kept = NoCallSite
    /\ _excluded_codes = {}
    /\ wrappers = {}
    /\ decorated = {}

SwitchNext ==
    \E t \in Solo : Resolve(t) \/ switch(t) \/ check(t) \/ ev(t) \/ NoMatch(t) \/ Return(t)

SwitchSpec == SwitchInit /\ [][SwitchNext]_vars

(***************************************************************************)
(* spells.dict_of.  The value an argument expression has when the call is  *)
(* made is written <<n, 0>> for argument node n; the values a starred      *)
(* argument n unpacks to are <<n, 1>>, <<n, 2>>, ...  A dict is the        *)
(* sequence of its items in insertion order.                               *)
(***************************************************************************)
MaxArgs == 2
MaxStar == 2

ArgKinds == {"a", "x.foo", "x.a", "y['bar']", "y[0]", "*args"}

DictArg(kind, ln) ==
    CASE kind = "a" -> Name("a", ln)
      [] kind = "x.foo" -> Attribute(Name("x", ln), "foo", ln)
      [] kind = "x.a" -> Attribute(Name("x", ln), "a", ln)
      [] kind = "y['bar']" -> Subscript(Name("y", ln), Index(Str("bar", ln)), ln)
      [] kind = "y[0]" -> Subscript(Name("y", ln), Index(Num("0", ln)), ln)
      [] kind = "*args" -> Starred(Name("args", ln), ln)

\* r = spells.dict_of(...) with up to MaxArgs positional arguments, with and
\* without the keyword argument a=1.
DictFiles ==
    {Module(<<Assign(<<Name("r", 1)>>,
                     Call(Attribute(Name("spells", 1), "dict_of", 1),
                          [i \in 1..Len(kinds) |-> DictArg(kinds[i], 1)], kws, 1), 1)>>) :
        kinds \in UNION {[1..n -> ArgKinds] : n \in 0..MaxArgs},
        kws \in {<<>>, <<keyword("a", Num("1", 1))>>}}

\* lst[-k:]
LastOf(lst, k) ==
    IF k = 0 \/ k >= Len(lst) THEN lst ELSE SubSeq(lst, Len(lst) - k + 1, Len(lst))

\* d[key] = value
SetItem(d, key, value) ==
    IF \E i \in DOMAIN d : d[i].key = key
    THEN [i \in DOMAIN d |-> IF d[i].key = key THEN [key |-> key, value |-> value] ELSE d[i]]
    ELSE Append(d, [key |-> key, value |-> value])

\* d.update(items)
RECURSIVE update(_, _)
update(d, items) ==
    IF items = <<>> THEN d
    ELSE update(SetItem(d, Head(items).key, Head(items).value), Tail(items))

\* The positional arguments the function receives for the argument nodes of the
\* call, a starred node n giving lens[n] of them.
Received(h, nodes, lens) ==
    Cat([i \in 1..Len(nodes) |->
           IF h[nodes[i]].k = "Starred"
           THEN [j \in 1..lens[nodes[i]] |-> <<nodes[i], j>>]
           ELSE <<<<nodes[i], 0>>>>])

\* The keyword arguments the function receives.
ReceivedKw(h, keywords) ==
    [i \in 1..Len(keywords) |->
        [key |-> h[keywords[i]].s, value |-> <<h[keywords[i]].f[1][1], 0>>]]

\* {node_name(arg): value for arg, value in zip(nodes, values)}
RECURSIVE DictComp(_, _, _, _)
DictComp(h, nodes, values, result) ==
    IF nodes = <<>> \/ values = <<>> THEN [err |-> "", result |-> result]
    ELSE IF node_name(h, Head(nodes)) = <<>> THEN [err |-> "TypeError", result |-> <<>>]
    ELSE DictComp(h, Tail(nodes), Tail(values),
                  SetItem(result, node_name(h, Head(nodes))[1], Head(values)))

\* count keeps len(args), made the dict returned.
dict_of(t) ==
    /\ th[t].pc = "done"
    /\ CalleeName(heap, th[t].origin) = "dict_of"
    /\ \E call \in {heap[th[t].result]} :
       \E lens \in [{n \in Range(call.f[2]) : heap[n].k = "Starred"} -> 0..MaxStar] :
       \E args \in {Received(heap, call.f[2], lens)} :
       \E result \in {DictComp(heap, LastOf(call.f[2], Len(args)), args, <<>>)} :
          th' = [th EXCEPT ![t] =
                   IF result.err # "" THEN Fail(@, result.err)
                   ELSE [@ EXCEPT !.pc = "returned", !.count = Len(args),
                                  !.made = update(result.result,
                                                  ReceivedKw(heap, call.f[3]))]]
    /\ UNCHANGED <<source, heap, nodes_by_line, contexts, target, cache, program>>

DictInit ==
    /\ source \in DictFiles
    /\ heap = Parse(source) \o MarkerNodes(Size(source))
    /\ nodes_by_line = NodesByLine(heap)
    /\ contexts = ContextParents(heap)
    /\ th = [t \in Threads |-> Idle]
    /\ target = NoTarget
    /\ file_info = <<SourcePath>>
    /\ parsed = 1
    /\ modules = 0
    /\ kept = NoCallSite
    /\ _excluded_codes = {}
    /\ wrappers = {}
    /\ decorated = {}

DictNext == \E t \in Solo : Resolve(t) \/ dict_of(t) \/ Return(t)

DictSpec == DictInit /\ [][DictNext]_vars

(***************************************************************************)
(* spells.unpack_keys and _unpack.  A key is the sequence of its           *)
(* characters; a dict is the set of its keys, and the value it has under   *)
(* key k is written [of |-> i, key |-> k], i being the place of the dict   *)
(* among those given (0 stands for no dict: the default).                  *)
(***************************************************************************)
MaxElems == 2

Lower == <<"a", "b", "f", "o", "p", "r">>
Upper == <<"A", "B", "F", "O", "P", "R">>

\* The characters of the names the files assign to.
Spelling(name) ==
    CASE name = "foo" -> <<"f", "o", "o">>
      [] name = "Bar" -> <<"B", "a", "r">>
      [] name = "v" -> <<"v">>
      [] name = "a" -> <<"a">>

\* str.swapcase
swapcase(chars) ==
    [i \in DOMAIN chars |->
        IF \E j \in DOMAIN Lower : Lower[j] = chars[i]
        THEN Upper[CHOOSE j \in DOMAIN Lower : Lower[j] = chars[i]]
        ELSE IF \E j \in DOMAIN Upper : Upper[j] = chars[i]
        THEN Lower[CHOOSE j \in DOMAIN Upper : Upper[j] = chars[i]]
        ELSE chars[i]]

\* The prefixes a call is made with: none, and P_.
Prefixes == {<<>>, <<"P", "_">>}

\* The dicts a call is made with: the keys foo, FOO, Bar, bAR, alone and after
\* P_, all of them or all but one.
AllKeys ==
    {pre \o nm : pre \in Prefixes,
                 nm \in {Spelling("foo"), swapcase(Spelling("foo")),
                         Spelling("Bar"), swapcase(Spelling("Bar"))}}

Dicts == {AllKeys} \cup {AllKeys \ {k} : k \in AllKeys}

DictLists == UNION {[1..n -> Dicts] : n \in 0..MaxElems}

UnpackCall(x, ln) == Call(Name("unpack_keys", ln), <<Name(x, ln)>>, <<>>, ln)

FooBar(ln) == Tuple(<<Name("foo", ln), Name("Bar", ln)>>, ln)

\* tests.py, test_unpack_keys_*, and test.py: an assignment to two names, to an
\* attribute and a subscript, through map(int, ...) and through a comprehension
\* over one name; a for loop and a comprehension clause over two names; and an
\* assignment to one name.
UnpackFiles ==
    {Module(<<stmt>>) : stmt \in {
        Assign(<<FooBar(1)>>, UnpackCall("d", 1), 1),
        Assign(<<Tuple(<<Attribute(Name("main", 1), "foo", 1),
                         Subscript(Name("y", 1), Index(Str("Bar", 1)), 1)>>, 1)>>,
               UnpackCall("d", 1), 1),
        Assign(<<FooBar(1)>>,
               Call(Name("map", 1), <<Name("int", 1), UnpackCall("d", 1)>>, <<>>, 1), 1),
        Assign(<<FooBar(1)>>,
               ListComp(Call1("int", Name("v", 1), 1),
                        <<comprehension(Name("v", 1), UnpackCall("d", 1), <<>>)>>, 1), 1),
        For(FooBar(1), UnpackCall("ds", 1), <<Pass(2)>>, <<>>, 1),
        Expr(ListComp(Name("foo", 1),
                      <<comprehension(FooBar(1), UnpackCall("ds", 1), <<>>)>>, 1), 1),
        Assign(<<Name("a", 1)>>, UnpackCall("d", 1), 1)}}

\* A fix_name that puts the prefix on before it swaps the case.
fix_name_prefixed_first(n, prefix, swap) ==
    IF swap THEN swapcase(prefix \o n) ELSE prefix \o n

\* fix_name of _unpack: n.swapcase() if swapcase, then prefix + n if prefix.
fix_name(n, prefix, swap) ==
    (CHOOSE val \in {(IF prefix # <<>> THEN prefix \o m ELSE m) :
                        m \in {IF swap THEN swapcase(n) ELSE n}} : TRUE)

\* getter(d, name) for the dict given at place i: operator.getitem without a
\* default, d[name] with KeyError turned into the default otherwise.
getter(d, i, key, default) ==
    IF key \in d THEN [err |-> "", value |-> [of |-> i, key |-> key]]
    ELSE IF default THEN [err |-> "", value |-> [of |-> 0, key |-> <<>>]]
    ELSE [err |-> "KeyError", value |-> [of |-> 0, key |-> <<>>]]

\* [getter(d, fix_name(name)) for name in names]
RECURSIVE Getters(_, _, _, _, _)
Getters(d, i, names, given, result) ==
    IF names = <<>> THEN [err |-> "", result |-> result]
    ELSE \* bind the lookup once
         (CHOOSE val \in
            {IF got.err # "" THEN [err |-> got.err, result |-> <<>>]
             ELSE Getters(d, i, Tail(names), given, Append(result, got.value)) :
                got \in {getter(d, i, fix_name(Spelling(Head(names)), given.prefix,
                                                given.swapcase), given.default)}} : TRUE)

\* unpack_keys up to the return of _unpack: the list for an assignment, the
\* generator, not yet started, for a loop or clause.
unpack_keys(t) ==
    /\ th[t].pc = "done"
    /\ CalleeName(heap, th[t].origin) = "unpack_keys"
    /\ \E default \in BOOLEAN, prefix \in Prefixes, swap \in BOOLEAN :
       \E out \in {assigned_names(heap, th[t].result, FALSE, TRUE)} :
          /\ target' = [call |-> th[t].result, allow_one |-> FALSE, allow_loops |-> TRUE,
                        err |-> out.err, names |-> out.names, node |-> out.node,
                        steps |-> out.steps]
          /\ IF out.err # ""
             THEN th' = [th EXCEPT ![t] = Fail(@, IF out.err = "only" THEN "only"
                                                  ELSE "TypeError")]
             ELSE IF heap[out.node].k = "Assign"
             THEN \E d \in Dicts :
                  \E given \in {[d |-> d, ds |-> <<>>, default |-> default,
                                  prefix |-> prefix, swapcase |-> swap]} :
                  \E got \in {Getters(d, 1, out.names, given, <<>>)} :
                     th' = [th EXCEPT ![t] =
                              IF got.err # "" THEN [Fail(@, got.err) EXCEPT !.given = given]
                              ELSE [@ EXCEPT !.pc = "returned", !.given = given,
                                             !.made = got.result]]
             ELSE \E ds \in DictLists :
                     th' = [th EXCEPT ![t] = [@ EXCEPT
                              !.pc = "generator", !.at = 0, !.yields = <<>>,
                              !.given = [d |-> {}, ds |-> ds, default |-> default,
                                         prefix |-> prefix, swapcase |-> swap]]]
    /\ UNCHANGED <<source, heap, nodes_by_line, contexts, cache, program>>

\* The loop or comprehension asks the generator for its next item.
NextItem(t) ==
    /\ th[t].pc = "generator"
    /\ IF th[t].at = Len(th[t].given.ds)
       THEN th' = [th EXCEPT ![t] = [@ EXCEPT !.pc = "returned"]]
       ELSE \E i \in {th[t].at + 1} :
            \E got \in {Getters(th[t].given.ds[i], i, target.names, th[t].given, <<>>)} :
               th' = [th EXCEPT ![t] =
                        IF got.err # "" THEN Fail(@, got.err)
                        ELSE [@ EXCEPT !.at = i, !.yields = Append(@, got.result)]]
    /\ UNCHANGED <<source, heap, nodes_by_line, contexts, target, cache, program>>

UnpackInit ==
    /\ source \in UnpackFiles
    /\ heap = Parse(source) \o MarkerNodes(Size(source))
    /\ nodes_by_line = NodesByLine(heap)
    /\ contexts = ContextParents(heap)
    /\ th = [t \in Threads |-> Idle]
    /\ target = NoTarget
    /\ file_info = <<SourcePath>>
    /\ parsed = 1
    /\ modules = 0
    /\ kept = NoCallSite
    /\ _excluded_codes = {}
    /\ wrappers = {}
    /\ decorated = {}

UnpackNext == \E t \in Solo : Resolve(t) \/ unpack_keys(t) \/ NextItem(t) \/ Return(t)

UnpackSpec == UnpackInit /\ [][UnpackNext]_vars

(***************************************************************************)
(* Two threads of one program, each calling a spell once from the same     *)
(* file.  The steps of Spell.__call__ are those above; a thread can be     *)
(* switched out between any two of them, the tree being shared.            *)
(***************************************************************************)
\* tester(1); tester(1) at module level and in a function, and
\* check([spells.dict_of(x), spells.dict_of(x)]).
ConcurrentFiles ==
    {Wrap(Semicolons(<<<<FALSE, FALSE>>, <<FALSE, FALSE>>>>, 1, 10), 0, inDef) : inDef \in BOOLEAN}
    \cup {Wrap(IdenticalCalls(2, FALSE), 0, FALSE)}

ConcurrentInit ==
    /\ source \in ConcurrentFiles
    /\ heap = Parse(source) \o MarkerNodes(Size(source))
    /\ nodes_by_line = NodesByLine(heap)
    /\ contexts = ContextParents(heap)
    /\ th = [t \in Threads |-> Idle]
    /\ target = NoTarget
    /\ file_info = <<SourcePath>>
    /\ parsed = 1
    /\ modules = 0
    /\ kept = NoCallSite
    /\ _excluded_codes = {}
    /\ wrappers = {}
    /\ decorated = {}

ConcurrentNext == \E t \in Threads : Resolve(t)

Concurrent == ConcurrentInit /\ [][ConcurrentNext]_vars

(***************************************************************************)
(* Properties of call resolution.  A resolution has finished when          *)
(* _call_at has returned the call (done) or raised (failed).               *)
(***************************************************************************)
Finished(t) == th[t].pc \in {"done", "failed"}

RoundTrip(t) == th[t].pc = "done" /\ th[t].result = th[t].origin

\* The statements _call_at groups for the line the frame of thread t is at.
LineStmts(t) ==
    IF th[t].frame.lineno \in DOMAIN nodes_by_line
    THEN {statement_containing_node(heap, n) : n \in Range(nodes_by_line[th[t].frame.lineno])}
    ELSE {}

\* The statements of the file that start on that line.
StartingOn(t) ==
    {n \in 1..Len(heap) : heap[n].k \in StmtKinds /\ heap[n].ln = th[t].frame.lineno}

\* All in one body list of one node.
Siblings(S) ==
    \E p \in 1..Len(heap) : \E j \in ListFields(heap[p].k) : S \subseteq Range(heap[p].f[j])

\* Two nodes written with the same text: the same kinds, names and constants
\* throughout, whatever the lines.
RECURSIVE SameText(_, _, _)
SameText(h, a, b) ==
    /\ h[a].k = h[b].k
    /\ h[a].s = h[b].s
    /\ Len(h[a].f) = Len(h[b].f)
    /\ \A j \in 1..Len(h[a].f) :
          /\ Len(h[a].f[j]) = Len(h[b].f[j])
          /\ \A i \in 1..Len(h[a].f[j]) : SameText(h, h[a].f[j][i], h[b].f[j][i])

\* The other calls written like call c, in its statement or on its line.
Twins(h, c) ==
    {d \in 1..Len(h) :
        /\ d # c
        /\ h[d].k = "Call"
        /\ \/ statement_containing_node(h, d) = statement_containing_node(h, c)
           \/ h[d].ln = h[c].ln
        /\ SameText(h, c, d)}

\* The calls among the arguments of call c, positional or keyword.
ArgCalls(h, c) ==
    {a \in Range(h[c].f[2]) \cup {h[k].f[1][1] : k \in Range(h[c].f[3])} : h[a].k = "Call"}

\* The call that c is an argument of, 0 when it is none.
ArgOf(h, c) ==
    LET p == h[c].parent
    IN  IF p = 0 THEN 0
        ELSE IF h[p].k = "Call" /\ c \in Range(h[p].f[2]) THEN p
        ELSE IF h[p].k = "keyword" /\ h[p].parent # 0 THEN h[p].parent
        ELSE 0

\* C1 round trip, as stated: every resolution of a position captured at a call
\* expression of the file, be it in a plain or compound statement, a decorator, a
\* comprehension or a lambda, ends with exactly that call expression.  The lines
\* taken are those whose statements are all in one body list: the others are
\* refused by design.
C1_RoundTripEverywhere ==
    \A t \in Threads :
        Finished(t) /\ th[t].origin # 0 /\ Siblings(LineStmts(t)) => RoundTrip(t)

\* C2 identical calls: a position captured at a call that has textually identical
\* calls in its statement or on its line resolves to that call itself, never to one
\* of the others and never to nothing.
C2_IdenticalCalls ==
    \A t \in Threads :
        Finished(t) /\ th[t].origin # 0 /\ Twins(heap, th[t].origin) # {} => RoundTrip(t)

C2_Witness ==
    \E t \in Threads :
        /\ RoundTrip(t)
        /\ \E d \in Twins(heap, th[t].origin) : d < th[t].origin /\ heap[d].ln = heap[th[t].origin].ln

C4_Semicolons ==
    \A t \in Threads :
        /\ Finished(t)
        /\ th[t].origin # 0
        /\ Cardinality(LineStmts(t)) > 1
        /\ Siblings(LineStmts(t))
        => RoundTrip(t)

\* A call of a statement that starts on the line where the previous statement ends.
C4_Witness ==
    \E t \in Threads :
        /\ RoundTrip(t)
        /\ Siblings(LineStmts(t))
        /\ heap[statement_containing_node(heap, th[t].origin)].ln = th[t].frame.lineno
        /\ \E s \in LineStmts(t) : heap[s].ln < th[t].frame.lineno

\* C5 as stated: when more than one statement starts on the queried line the
\* resolution fails.
C5_ManyStatementsFail ==
    \A t \in Threads : Finished(t) /\ Cardinality(StartingOn(t)) > 1 => th[t].pc = "failed"

\* C5 amended: when more than one statement starts on the queried line the whole
\* group is resolved together: a position captured at one of its calls resolves to
\* that call when the grouped statements are all in one body list, and the
\* resolution fails, with the ValueError of body.index, exactly when they are not.
C5_ManyStatementsGrouped ==
    \A t \in Threads :
        Finished(t) /\ Cardinality(StartingOn(t)) > 1 =>
            IF Siblings(LineStmts(t))
            THEN th[t].origin # 0 => RoundTrip(t)
            ELSE th[t].pc = "failed" /\ th[t].err = "ValueError"

\* A call of the second of two statements that start on one line, resolved.
C5_Witness ==
    \E t \in Threads :
        /\ RoundTrip(t)
        /\ Cardinality(StartingOn(t)) > 1
        /\ \E s \in StartingOn(t) : s < statement_containing_node(heap, th[t].origin)

\* The index CallFinder records for a candidate: that of the first call instruction
\* at or after the marker, in the group compiled with the marker on the candidate;
\* -2 when the marker does not show up exactly once.
MarkerIndex(h, t, call, stmts, frame) ==
    CHOOSE val \in
        {IF got.ok /\ Cardinality(SentinelAt(got.i)) = 1
         THEN CallIndexAfter(got.i, CHOOSE a \in SentinelAt(got.i) : TRUE) ELSE -2 :
            got \in {compile_instructions(
                        [h EXCEPT ![call].f[3] = Append(@, Syn(h, t, 1))], stmts, frame)}} : TRUE

\* The target index: the call instructions of the group, compiled as it is, at the
\* adjusted offset.
TargetIndex(t) ==
    CHOOSE val \in
        {IF got.ok THEN CallIndexAt(got.i, th[t].frame.lasti - th[t].off) ELSE {} :
            got \in {compile_instructions(heap, th[t].stmts, th[t].frame)}} : TRUE

Matching(t) ==
    {c \in Range(CandidateCalls(heap, th[t].stmts)) :
        {MarkerIndex(heap, t, c, th[t].stmts, th[t].frame)} = TargetIndex(t)}

\* C6 no match: a resolution whose adjusted offset is not that of exactly one call
\* instruction of the group, or whose target index no candidate records, fails; a
\* resolution that returns returns a candidate that records the target index.
C6_FailsWithoutMatch ==
    \A t \in Threads :
        Finished(t) /\ th[t].stmts # <<>> =>
            /\ Cardinality(TargetIndex(t)) # 1 \/ Matching(t) = {} => th[t].pc = "failed"
            /\ th[t].pc = "done" => th[t].result \in Matching(t)

\* Every candidate was tried and none records the target index.
C6_Witness ==
    \E t \in Threads :
        /\ th[t].pc = "failed"
        /\ th[t].err = "AttributeError"
        /\ th[t].calls # <<>>
        /\ Cardinality(TargetIndex(t)) = 1
        /\ Matching(t) = {}

(***************************************************************************)
(* Properties of assigned_names, read off the outcome of the call the      *)
(* spell made: target.call is the node it asked about (0: no call made).   *)
(***************************************************************************)
Asked == target.call # 0

\* Whether assigned_names considers ancestor n at all under the flag.
Considered(n, allow_loops) ==
    \/ heap[n].k = "Assign"
    \/ heap[n].k \in {"For", "comprehension"} /\ allow_loops

\* The nearest considered ancestor of node c, 0 when there is none.
RECURSIVE Nearest(_, _)
Nearest(c, allow_loops) ==
    IF heap[c].parent = 0 THEN 0
    ELSE IF Considered(heap[c].parent, allow_loops) THEN heap[c].parent
    ELSE Nearest(heap[c].parent, allow_loops)

\* The elements of a binding target: those of a tuple or list, else the target.
Elts(tg) == IF heap[tg].k \in {"Tuple", "List"} THEN heap[tg].f[1] ELSE <<tg>>

IsNames(tg) == \A e \in Range(Elts(tg)) : heap[e].k = "Name"

Ids(tg) == [i \in 1..Len(Elts(tg)) |-> heap[Elts(tg)[i]].s]

\* The three element shapes that have a name, and the name of each.
HasStringKey(e) ==
    /\ heap[e].k = "Subscript"
    /\ heap[heap[e].f[2][1]].k = "Index"
    /\ heap[heap[heap[e].f[2][1]].f[1][1]].k = "Str"

Nameable(e) == heap[e].k \in {"Name", "Attribute"} \/ HasStringKey(e)

NameOf(e) ==
    IF heap[e].k \in {"Name", "Attribute"} THEN heap[e].s
    ELSE heap[heap[heap[e].f[2][1]].f[1][1]].s

\* C7 single names: assigned_names returns only a construct that binds more than
\* one name, unless allow_one is set.  For a call that is the value of an assignment
\* to names, more than one name is returned with that assignment whatever the flag;
\* a single name a is returned, as ("a",), only with allow_one, and without it the
\* assignment is passed over, which ends in NoBindingFound when no other ancestor
\* is considered.
C7_SingleNames ==
    Asked =>
        LET p == heap[target.call].parent
            single == heap[p].k = "Assign" /\ Len(heap[p].f[1]) = 1 /\ IsNames(heap[p].f[1][1])
            names == Ids(heap[p].f[1][1])
        IN  /\ target.err = "" => Len(target.names) > 1 \/ target.allow_one
            /\ single /\ (Len(names) > 1 \/ target.allow_one) =>
                  target.err = "" /\ target.names = names /\ target.node = p
            /\ single /\ Len(names) = 1 /\ ~target.allow_one =>
                  /\ target.node # p
                  /\ Nearest(p, target.allow_loops) = 0 => target.err = NoBindingFound

\* a = f() asked without allow_one, nothing else around: NoBindingFound.
C7_Witness ==
    /\ Asked
    /\ ~target.allow_one
    /\ heap[heap[target.call].parent].k = "Assign"
    /\ Len(heap[heap[target.call].parent].f[1]) = 1
    /\ heap[heap[heap[target.call].parent].f[1][1]].k = "Name"
    /\ target.err = NoBindingFound

\* C8 loops: with allow_loops clear no for loop and no comprehension clause is
\* looked at: none is returned and none is failed at, whatever its target.  For a
\* call that is the iterable of a loop or clause binding several names, those names
\* are returned with the loop when the flag is set, and with the flag clear the
\* outcome is NoBindingFound when no assignment encloses it.
C8_Loops ==
    Asked =>
        LET p == heap[target.call].parent
            loop == /\ heap[p].k \in {"For", "comprehension"}
                    /\ heap[p].f[2] = <<target.call>>
                    /\ IsNames(heap[p].f[1][1])
                    /\ Len(Elts(heap[p].f[1][1])) > 1
        IN  /\ ~target.allow_loops => target.node = 0 \/ heap[target.node].k = "Assign"
            /\ loop /\ target.allow_loops =>
                  target.err = "" /\ target.names = Ids(heap[p].f[1][1]) /\ target.node = p
            /\ loop /\ ~target.allow_loops /\ Nearest(p, FALSE) = 0 =>
                  target.err = NoBindingFound

\* A loop whose target has no name, asked about with the flag clear: passed over.
C8_Witness ==
    /\ Asked
    /\ ~target.allow_loops
    /\ heap[heap[target.call].parent].k \in {"For", "comprehension"}
    /\ \E e \in Range(Elts(heap[heap[target.call].parent].f[1][1])) : ~Nameable(e)
    /\ target.err = NoBindingFound

\* The one binding target of a considered construct (it has one).
TargetNode(n) == heap[n].f[1][1]

\* C9 element names: the names returned are those of the elements of the returned
\* construct's target, one per element from left to right: the identifier of a name,
\* the final component of an attribute chain, the string of a subscript by a
\* literal string.  When the nearest considered construct has one target and an
\* element of it has another shape, the outcome is UnsupportedTarget there.
C9_ElementNames ==
    Asked =>
        LET n == Nearest(target.call, target.allow_loops)
        IN  /\ target.err = "" =>
                  LET elts == Elts(TargetNode(target.node))
                  IN  /\ Len(target.names) = Len(elts)
                      /\ \A i \in 1..Len(elts) :
                            Nameable(elts[i]) /\ target.names[i] = NameOf(elts[i])
            /\ /\ n # 0
               /\ heap[n].k = "Assign" => Len(heap[n].f[1]) = 1
               /\ \E e \in Range(Elts(TargetNode(n))) : ~Nameable(e)
               => target.err = UnsupportedTarget /\ target.node = n

\* obj.part.a, d['b'] = f() gives ("a", "b").
C9_Witness ==
    /\ Asked
    /\ target.err = ""
    /\ target.names = <<"a", "b">>
    /\ heap[Elts(TargetNode(target.node))[1]].k = "Attribute"
    /\ heap[heap[Elts(TargetNode(target.node))[1]].f[1][1]].k = "Attribute"
    /\ heap[Elts(TargetNode(target.node))[2]].k = "Subscript"

\* A target that assigned_names rejects: an element that is itself a tuple or list,
\* or a starred element.
Rejected(tg) == \E e \in Range(Elts(tg)) : heap[e].k \in {"Tuple", "List", "Starred"}

\* C10 rejected constructs: when the nearest considered construct is an assignment
\* with more than one target, or its target has a nested tuple or list or a starred
\* element, the outcome is an error at that construct, whatever encloses it.
C10_NoSkipping ==
    Asked =>
        LET n == Nearest(target.call, target.allow_loops)
            chained == heap[n].k = "Assign" /\ Len(heap[n].f[1]) > 1
        IN  n # 0 /\ (chained \/ Rejected(TargetNode(n))) =>
                target.err # "" /\ target.node = n

\* Such a construct inside a loop over two names that the flags would have taken.
C10_Witness ==
    /\ Asked
    /\ target.allow_loops
    /\ target.err # ""
    /\ target.node # 0
    /\ target.node = Nearest(target.call, TRUE)
    /\ heap[target.node].k = "Assign"
    /\ \/ Len(heap[target.node].f[1]) > 1
       \/ Rejected(TargetNode(target.node))
    /\ Nearest(target.node, TRUE) # 0
    /\ IsNames(TargetNode(Nearest(target.node, TRUE)))
    /\ Len(Elts(TargetNode(Nearest(target.node, TRUE)))) > 1

\* The k-th ancestor of node c (0 past the root).
RECURSIVE Up(_, _)
Up(c, k) == IF k = 0 \/ c = 0 THEN c ELSE Up(heap[c].parent, k - 1)

\* A construct assigned_names can return under the flags: an assignment with one
\* target, or with allow_loops a loop or clause, whose target elements all have
\* names, more than one of them unless allow_one is set.
Acceptable(n, allow_one, allow_loops) ==
    /\ Considered(n, allow_loops)
    /\ heap[n].k = "Assign" => Len(heap[n].f[1]) = 1
    /\ \A e \in Range(Elts(TargetNode(n))) : Nameable(e)
    /\ Len(Elts(TargetNode(n))) > 1 \/ allow_one

\* The distances from node c of its ancestors acceptable under the flags.
AcceptableAt(c, allow_one, allow_loops) ==
    {k \in 1..Len(heap) : Up(c, k) # 0 /\ Acceptable(Up(c, k), allow_one, allow_loops)}

\* C11 nearest construct: the construct assigned_names returns is an acceptable
\* ancestor of the starting node and no acceptable ancestor is fewer parent steps
\* away; of two nested comprehension clauses or of an assignment inside a loop that
\* would both do, it is the inner one.
C11_Nearest ==
    Asked /\ target.err = "" =>
        LET at == AcceptableAt(target.call, target.allow_one, target.allow_loops)
        IN  /\ target.steps \in at
            /\ \A k \in at : target.steps <= k
            /\ target.node = Up(target.call, target.steps)

\* [v for x, y in [w for a, b in f()]] asked with allow_loops: the inner clause.
C11_Witness ==
    /\ Asked
    /\ target.err = ""
    /\ heap[target.node].k = "comprehension"
    /\ \E k \in AcceptableAt(target.call, target.allow_one, target.allow_loops) :
          k > target.steps /\ heap[Up(target.call, k)].k = "comprehension"

(***************************************************************************)
(* Properties of the temporary changes the matcher makes to the tree.      *)
(***************************************************************************)
\* The tree as FileInfo.__init__ built it, with the marker objects unattached.
Original == Parse(source) \o MarkerNodes(Size(source))

\* Thread t is inside a with tweak_list(...) block.
InWith(t) == th[t].pc \in {"offset_compile", "offset_exit", "trial_compile", "trial_exit"}

\* C14 temporary changes: whenever the resolving thread is outside the with blocks
\* of the offset pass and of the trials (before the request, between the pass and
\* the trials, between two trials, after a match, after a failure raised inside a
\* block) every list of every node, the keyword lists of the calls and the
\* statement bodies among them, holds the elements it held before the request, in
\* the same order.
C14_Restored ==
    (\A t \in Solo : ~InWith(t)) =>
        \E tree \in {Original} : \A n \in 1..Len(heap) : heap[n].f = tree[n].f

\* A request that failed inside the with block of the offset pass: the containing
\* block, compiled alone, has more than one code object (a lambda in a decorator).
C14_Witness ==
    \E t \in Solo :
        /\ th[t].pc = "failed"
        /\ th[t].err = "only"
        /\ th[t].a_stmt # 0
        /\ th[t].frame.name \notin special_code_names
        /\ ~BlockInstructions(heap, get_containing_block(heap, th[t].a_stmt)).ok

\* C16 returned call: the call a resolution returns is a call of one of the
\* statements that have a node on the queried line, and it starts on the queried
\* line or on an earlier one.
C16_ReturnedCall ==
    \A t \in Threads :
        th[t].pc = "done" =>
            /\ heap[th[t].result].k = "Call"
            /\ statement_containing_node(heap, th[t].result) \in LineStmts(t)
            /\ heap[th[t].result].ln <= th[t].frame.lineno

\* A call returned for a line whose statement also has a call starting further down.
C16_Witness ==
    \E t \in Threads :
        /\ th[t].pc = "done"
        /\ \E c \in 1..Len(heap) :
              /\ heap[c].k = "Call"
              /\ heap[c].parent # 0
              /\ statement_containing_node(heap, c) \in LineStmts(t)
              /\ heap[c].ln > th[t].frame.lineno

\* The code objects of the running file that have the name and first line of the
\* frame of thread t.
Lookalikes(t) ==
    {c \in 1..Len(RealCodes(source)) :
        /\ RealCodes(source)[c].name = th[t].frame.name
        /\ RealCodes(source)[c].first = th[t].frame.first}

\* C17 nested anonymous blocks: a position captured at a call inside a lambda or
\* comprehension resolves to that call also when the statement holds several
\* anonymous blocks of that kind starting on that line.
C17_NestedAnonymous ==
    \A t \in Threads :
        /\ Finished(t)
        /\ th[t].origin # 0
        /\ th[t].frame.name \in special_code_names
        /\ Cardinality(Lookalikes(t)) > 1
        => RoundTrip(t)

(***************************************************************************)
(* Properties of concurrent resolution, for the specification Concurrent.  *)
(***************************************************************************)
\* The marker objects of thread t.
MarkersOf(t) == {Syn(heap, t, j) : j \in 1..5}

\* The nodes reachable from the module through the lists: what a compilation of
\* any part of the tree can see.
Attached == Range(Walk(heap, 1))

\* C15 concurrent resolution: when both threads have finished, each has the call
\* its position was captured at, as it has when it runs alone, and every list of
\* the shared tree holds what it held before.
C15_Isolated ==
    (\A t \in Threads : Finished(t)) =>
        /\ \A t \in Threads : th[t].origin # 0 => RoundTrip(t)
        /\ \E tree \in {Original} : \A n \in 1..Len(heap) : heap[n].f = tree[n].f

\* Its three parts, one by one: the results, the markers seen, the tree afterwards.
C15_SoloResults == \A t \in Threads : Finished(t) /\ th[t].origin # 0 => RoundTrip(t)

C15_NoForeignMarker ==
    \A t \in Threads :
        th[t].pc \in {"offset_compile", "baseline", "trial_compile"} =>
            \A u \in Threads \ {t} : MarkersOf(u) \cap Attached = {}

C15_TreeUnmodified ==
    (\A t \in Threads : Finished(t)) =>
        \E tree \in {Original} : \A n \in 1..Len(heap) : heap[n].f = tree[n].f

(***************************************************************************)
(* Properties of the file cache, for the specification CacheSpec.          *)
(***************************************************************************)
\* C12 cached by path: the file under study is read and parsed once, and every
\* resolution against it is given that one FileInfo object.
C12_OncePerPath ==
    /\ parsed = 1
    /\ \A t \in Threads : th[t].info \in {0, 1}

\* C13 same node: a resolution of the position whose call site a caller has kept
\* returns the node kept, of the FileInfo object kept, whatever was resolved in
\* between.
C13_SameNode ==
    \A t \in Threads :
        th[t].pc = "done" /\ kept # NoCallSite /\ th[t].frame = kept.frame =>
            th[t].info = kept.info /\ th[t].result = kept.node

(***************************************************************************)
(* Properties of the frame Spell.__call__ uses, for the specification      *)
(* FrameSpec.                                                              *)
(***************************************************************************)
\* C18 frame used: of the frames from the caller of the spell outward, the one used
\* is the first that is not the frame of a function passed to no_spells and whose
\* file name does not start with "<"; every frame before it is the frame of such a
\* function or of such a file, and no_spells leaves the functions of the program as
\* they were.
C18_FrameUsed ==
    /\ wrappers = Wrappers
    /\ \A t \in Solo :
          th[t].pc \in {"call_at", "elsewhere"} =>
              LET frames == th[t].stack \o <<BaseFrame(th[t].frame)>>
                  n == th[t].skipped
              IN  /\ n < Len(frames)
                  /\ \A i \in 1..n :
                        frames[i].fn \in decorated \/ frames[i].filename[1] = "<"
                  /\ frames[n + 1].fn \notin decorated
                  /\ frames[n + 1].filename[1] # "<"
                  /\ (th[t].pc = "call_at") = (n = Len(th[t].stack))

(***************************************************************************)
(* Properties of maybe, for the specification MaybeSpec.                   *)
(***************************************************************************)
\* The number of attribute accesses, subscripts and calls applied, one to the
\* result of the other, from the value of node on.
RECURSIVE Applied(_)
Applied(node) == IF Operates(heap, node) THEN 1 + Applied(heap[node].parent) ELSE 0

\* C19 maybe chain: maybe(x) returns x when x is not None.  When x is None and k
\* operations are applied to the call, the first k - 1 each yield the placeholder
\* and the k-th yields None, no operation is ever applied to None, the value handed
\* to the enclosing expression is None and is the value of the whole chain and of
\* nothing above it; with k = 0 maybe returns None.
C19_MaybeChain ==
    \A t \in Solo :
        /\ th[t].err # "TypeError"
        /\ th[t].pc \in {"chain", "returned"} =>
              LET k == Applied(th[t].origin)
                  done == Len(th[t].yields)
              IN  IF th[t].x # "None"
                  THEN th[t].value = th[t].x /\ th[t].at = th[t].origin /\ done = 0
                  ELSE /\ done <= k
                       /\ th[t].at = Up(th[t].origin, done)
                       /\ \A i \in 1..done :
                             th[t].yields[i] = IF i < k THEN "_Nothing" ELSE "None"
                       /\ th[t].value = IF done < k THEN "_Nothing" ELSE "None"
                       /\ th[t].pc = "returned" => done = k

\* maybe(n).a()[0] with n None as the argument of func: after three operations the
\* argument is None.
C19_Witness ==
    \E t \in Solo :
        /\ th[t].pc = "returned"
        /\ th[t].x = "None"
        /\ th[t].value = "None"
        /\ Len(th[t].yields) = 3
        /\ heap[heap[th[t].at].parent].k = "Call"
        /\ heap[th[t].at].k = "Subscript"

(***************************************************************************)
(* Properties of switch, for the specification SwitchSpec.                 *)
(***************************************************************************)
\* The dictionary of switch(val, lambda: {...}) at call c, 0 when the second
\* argument is no such lambda.
CasesOf(c) ==
    LET cases == heap[c].f[2][2]
    IN  IF heap[cases].k = "Lambda" /\ heap[heap[cases].f[1][1]].k = "Dict"
        THEN heap[cases].f[1][1] ELSE 0

\* The alternatives of a key: a, b for {{a, b}}, the key itself otherwise.
Alternatives(key) ==
    IF /\ heap[key].k = "Set"
       /\ Len(heap[key].f[1]) = 1
       /\ heap[heap[key].f[1][1]].k = "Set"
    THEN heap[heap[key].f[1][1]].f[1]
    ELSE <<key>>

\* The keys of dictionary d in source order, alternatives in their order.
KeysInOrder(d) == Cat([i \in 1..Len(heap[d].f[1]) |-> Alternatives(heap[d].f[1][i])])

\* The value of the entry of d that key k, or the key it is an alternative of, heads.
ValueOfKey(d, k) ==
    heap[d].f[2][CHOOSE i \in 1..Len(heap[d].f[1]) : k \in Range(Alternatives(heap[d].f[1][i]))]

\* C20 switch: the keys are evaluated one at a time in source order, alternatives
\* in their order, a key only after every key before it differed from val; a value
\* is evaluated only right after the first key equal to val, it is that entry's
\* value, nothing is evaluated after it and its value is returned; when every key
\* differed the default is returned if one was given and KeyError is raised
\* otherwise.
C20_SwitchLazy ==
    \A t \in Solo :
        /\ CalleeName(heap, th[t].origin) = "switch"
        /\ th[t].pc \in {"cases", "value", "returned"} \/ th[t].err \in {"KeyError", "Exception"}
        => \E d \in {CasesOf(th[t].origin)} : \E keys \in {KeysInOrder(d)} :
           \E e \in {th[t].evaluated} : \E given \in {\E w \in Range(heap[th[t].origin].f[3]) :
                                                         heap[w].s = "default"} :
              /\ d # 0
              /\ \A i \in 1..Len(e) :
                    IF e[i].node \in Range(keys)
                    THEN /\ i <= Len(keys) /\ e[i].node = keys[i]
                         /\ \A j \in 1..(i - 1) : e[j].out = "differs"
                         /\ e[i].out = "equal" =>
                               \/ i = Len(e) /\ th[t].pc = "value"
                               \/ i = Len(e) - 1
                    ELSE /\ i = Len(e) /\ i > 1
                         /\ e[i - 1].out = "equal"
                         /\ e[i].node = ValueOfKey(d, e[i - 1].node)
              /\ th[t].pc = "cases" => \A i \in 1..Len(e) : e[i].out = "differs"
              /\ th[t].pc = "value" => e # <<>> /\ e[Len(e)].out = "equal"
              /\ th[t].pc = "returned" =>
                    \/ /\ th[t].value = "value"
                       /\ e # <<>> /\ e[Len(e)].out = "object" /\ e[Len(e)].node = th[t].at
                    \/ /\ th[t].value = "default" /\ given
                       /\ Len(e) = Len(keys) /\ \A i \in 1..Len(e) : e[i].out = "differs"
              /\ th[t].err = "KeyError" =>
                    ~given /\ Len(e) = Len(keys) /\ \A i \in 1..Len(e) : e[i].out = "differs"
              /\ th[t].err = "Exception" => e # <<>> /\ e[Len(e)].out = "raises"

\* {{2, bar()}}: v, k: w with 2 different from val and bar() equal to it: v is
\* evaluated and returned, k and w never are.
C20_Witness ==
    \E t \in Solo :
        /\ th[t].pc = "returned"
        /\ th[t].value = "value"
        /\ Len(th[t].evaluated) = 3
        /\ heap[heap[heap[th[t].evaluated[2].node].parent].parent].k = "Set"
        /\ Len(KeysInOrder(CasesOf(th[t].origin))) = 3

(***************************************************************************)
(* The marker and the call instructions.                                   *)
(***************************************************************************)
\* The nodes the call instructions of a unit issue, in instruction order.
CallNodes(instructions) ==
    [j \in 1..Len(_call_instructions(instructions)) |-> _call_instructions(instructions)[j].node]

\* Thread t has compiled the group with the marker on a candidate and the marker
\* is in the instructions of the executing unit.
MarkerSeen(t) ==
    /\ th[t].pc = "trial_exit"
    /\ th[t].err = ""
    /\ Cardinality(SentinelAt(th[t].instructions)) = 1

\* C23 marker: the group compiled with the marker on a candidate has the call
\* instructions of the group compiled without it, as many and for the same calls in
\* the same order; the first call instruction at or after the load of the marker
\* is the one issuing the candidate; so the index recorded for the candidate is
\* the index of the candidate's call instruction in the unmarked unit.
C23_MarkerKeepsOrder ==
    \A t \in Threads :
        MarkerSeen(t) =>
            \E call \in {th[t].calls[th[t].i]} :
            \E base \in {compile_instructions(tweak_list(heap, call, 3, th[t].saved),
                                                th[t].stmts, th[t].frame)} :
            \E a \in SentinelAt(th[t].instructions) :
            \E rec \in {CallIndexAfter(th[t].instructions, a)} :
                /\ base.ok
                /\ CallNodes(th[t].instructions) = CallNodes(base.i)
                /\ rec >= 0
                /\ CallNodes(th[t].instructions)[rec + 1] = call
                /\ {j \in 1..Len(CallNodes(base.i)) : CallNodes(base.i)[j] = call} = {rec + 1}

\* The marker is on the call issued second in a unit of three calls or more.
C23_Witness ==
    \E t \in Threads :
        /\ MarkerSeen(t)
        /\ Len(CallNodes(th[t].instructions)) >= 3
        /\ \E a \in SentinelAt(th[t].instructions) :
              CallIndexAfter(th[t].instructions, a) = 1

\* The candidates whose marker is not loaded in the unit the frame is executing.
Elsewhere(t) ==
    {c \in Range(CandidateCalls(heap, th[t].stmts)) :
        MarkerIndex(heap, t, c, th[t].stmts, th[t].frame) = -2}

\* C29 one match: once the target index is known, at most one candidate of the
\* group records it, whatever the order of trying them, and a candidate whose marker
\* is not in the instructions of the executing unit is not the call returned.
C29_OneMatch ==
    \A t \in Threads :
        Finished(t) /\ th[t].stmts # <<>> /\ Cardinality(TargetIndex(t)) = 1 =>
            /\ Cardinality(Matching(t)) <= 1
            /\ th[t].pc = "done" => th[t].result \notin Elsewhere(t)

\* A resolved call in a nested unit, with a candidate of the same statement
\* outside that unit and three candidates or more in all.
C29_Witness ==
    \E t \in Threads :
        /\ th[t].pc = "done"
        /\ th[t].frame.name \in special_code_names
        /\ Len(th[t].calls) >= 3
        /\ Elsewhere(t) # {}
        /\ Matching(t) = {th[t].result}

(***************************************************************************)
(* The statement group.                                                    *)
(***************************************************************************)
\* The body list of thread t as the parser left it: the saved copy while
\* stmt_offset has its marker in the list.
GroupBody(t) ==
    IF th[t].pc \in {"offset_compile", "offset_exit"} THEN th[t].saved
    ELSE BodyList(heap, th[t].body)

\* C25 siblings: a group that has been formed is all the statements of the queried
\* line, every one of them in the one body list CallFinder took, in the order of
\* that list; and when the statements of the line are not all in one body list
\* the resolution fails with no group formed.
C25_SiblingGroup ==
    \A t \in Threads :
        /\ th[t].stmts # <<>> =>
              /\ Range(th[t].stmts) = LineStmts(t)
              /\ \A i \in DOMAIN th[t].stmts :
                    \E k \in DOMAIN GroupBody(t) :
                        /\ GroupBody(t)[k] = th[t].stmts[i]
                        /\ \A j \in DOMAIN th[t].stmts :
                              j < i => \E l \in 1..(k - 1) : GroupBody(t)[l] = th[t].stmts[j]
        /\ Finished(t) /\ LineStmts(t) # {} /\ ~Siblings(LineStmts(t)) =>
              th[t].pc = "failed" /\ th[t].stmts = <<>>

\* A group of two statements or more, formed in a body that has other statements
\* before it.
C25_Witness ==
    \E t \in Threads :
        /\ th[t].pc = "loop"
        /\ Len(th[t].stmts) >= 2
        /\ GroupBody(t)[1] \notin Range(th[t].stmts)

(***************************************************************************)
(* The line index.                                                         *)
(***************************************************************************)
\* Where node n is listed in the index: the pairs of a line and a position.
Listed(n) ==
    {lk \in UNION {{l} \X DOMAIN nodes_by_line[l] : l \in DOMAIN nodes_by_line} :
        nodes_by_line[lk[1]][lk[2]] = n}

\* C27 line index: every parsed node with a line number is listed exactly once, in
\* the list of the line it starts on, so not under the later lines it spans; a node
\* without a line number is not listed, nor is a marker node; and no step of a
\* resolution takes a line away or changes the list of a line.
C27_LineIndex ==
    /\ [](/\ \A n \in 1..Size(source) :
               IF heap[n].ln = 0 THEN Listed(n) = {}
               ELSE \E k \in 1..Size(source) : Listed(n) = {<<heap[n].ln, k>>}
           /\ \A m \in (Size(source) + 1)..Len(heap) : Listed(m) = {})
    /\ [][\A l \in DOMAIN nodes_by_line :
              l \in DOMAIN nodes_by_line' /\ nodes_by_line'[l] = nodes_by_line[l]]_vars

\* A call resolved on a line that a node starting on an earlier line spans: that
\* node is not in the list of the queried line.
C27_Witness ==
    \E t \in Threads :
        /\ th[t].pc = "done"
        /\ \E n \in 1..Size(source) :
              /\ heap[n].ln # 0
              /\ heap[n].ln < th[t].frame.lineno
              /\ \E d \in Range(Walk(heap, n)) : heap[d].ln = th[t].frame.lineno
              /\ n \notin Range(nodes_by_line[th[t].frame.lineno])

(***************************************************************************)
(* The offset of the statement group.                                      *)
(***************************************************************************)
\* Thread t is inside the with block of stmt_offset.
Measuring(t) == th[t].pc \in {"offset_compile", "offset_exit"}

\* The place of the first statement of the group in its body list.
GroupStart(t) == CHOOSE k \in DOMAIN GroupBody(t) : GroupBody(t)[k] = th[t].stmts[1]

\* The instructions of the isolated unit at the adjusted offset: one or none.
AtAdjusted(t) ==
    LET got == compile_instructions(heap, th[t].stmts, th[t].frame)
    IN  IF got.ok
        THEN {got.i[i] : i \in {i \in 1..Len(got.i) :
                                   Offset(i) = th[t].frame.lasti - th[t].off}}
        ELSE {}

\* C24 as stated: while the offset is measured for a group that is not first in
\* its body, the statements before the group are gone from the body and one
\* marker expression stands in their place.
C24_PrecedingReplaced ==
    \A t \in Threads :
        Measuring(t) /\ GroupStart(t) > 1 =>
            BodyList(heap, th[t].body) =
                <<Syn(heap, t, 3)>> \o SubSeq(GroupBody(t), GroupStart(t), Len(GroupBody(t)))

\* C24 amended: for every frame that is not a lambda or comprehension, first in
\* its body or not, the offset is measured with the first statement of the group
\* itself replaced by the marker expression and every other statement of the body
\* in place; the offset measured is subtracted from the frame's instruction offset
\* before the target index is computed, and the instruction of the isolated unit
\* at the adjusted offset is the call instruction the frame is executing.  For a
\* lambda or comprehension frame nothing is measured or subtracted.
C24_StatementReplaced ==
    \A t \in Threads :
        /\ Measuring(t) =>
              /\ th[t].frame.name \notin special_code_names
              /\ BodyList(heap, th[t].body) =
                    [GroupBody(t) EXCEPT ![GroupStart(t)] = Syn(heap, t, 3)]
        /\ th[t].pc \in {"loop", "done"} =>
              /\ th[t].frame.name \in special_code_names => th[t].off = 0
              /\ th[t].origin # 0 =>
                    /\ \E x \in AtAdjusted(t) : IsCallOp(x) /\ x.node = th[t].origin
                    /\ th[t].idx \in CallIndexAt(
                          compile_instructions(heap, th[t].stmts, th[t].frame).i,
                          th[t].frame.lasti - th[t].off)

\* A call resolved in a statement that has others before it in its body, with an
\* offset measured and subtracted.
C24_Witness ==
    \E t \in Threads :
        /\ th[t].pc = "done"
        /\ th[t].result = th[t].origin
        /\ GroupStart(t) > 1
        /\ th[t].off > 0
        /\ th[t].frame.lasti - th[t].off > 0

(***************************************************************************)
(* How far assigned_names goes.                                            *)
(***************************************************************************)
\* The number of parent steps from node c to the root.
RECURSIVE Depth(_)
Depth(c) == IF heap[c].parent = 0 THEN 0 ELSE 1 + Depth(heap[c].parent)

\* C28 termination: assigned_names ends after at most as many parent steps as the
\* starting node is deep, in one of three ways: it returns an acceptable construct,
\* the ancestor it stopped at; it fails at a considered ancestor whose target it
\* cannot take names from; or it fails with NoBindingFound, and then it has gone
\* all the way to the root.
C28_Terminates ==
    Asked =>
        /\ target.steps <= Depth(target.call)
        /\ \/ /\ target.err = ""
              /\ target.node = Up(target.call, target.steps)
              /\ Acceptable(target.node, target.allow_one, target.allow_loops)
           \/ /\ target.err \in {UnsupportedTarget, "only"}
              /\ target.node = Up(target.call, target.steps)
              /\ Considered(target.node, target.allow_loops)
              /\ ~Acceptable(target.node, TRUE, target.allow_loops)
           \/ /\ target.err = NoBindingFound
              /\ target.steps = Depth(target.call)
              /\ heap[Up(target.call, target.steps)].k = "Module"

\* A call four levels down in a function, with no construct above it that would do:
\* NoBindingFound after the walk has reached the module.
C28_Witness ==
    /\ Asked
    /\ target.err = NoBindingFound
    /\ target.steps >= 4
    /\ \E k \in 1..target.steps : heap[Up(target.call, k)].k = "FunctionDef"

(***************************************************************************)
(* Where the starting call lies in the construct assigned_names returns.   *)
(***************************************************************************)
\* Node c is node top or lies under it.
RECURSIVE Under(_, _)
Under(c, top) == c # 0 /\ (c = top \/ Under(heap[c].parent, top))

\* C30 inside the consumed expression: when assigned_names returns names and a
\* construct for a call, the call lies in the value of that assignment or in the
\* iterable of that loop or comprehension clause, never in the body of the loop or
\* in the condition or target of the clause.
C30_InsideConsumed ==
    target.call # 0 /\ target.err = "" => Under(target.call, heap[target.node].f[2][1])

(***************************************************************************)
(* The parent attributes.                                                  *)
(***************************************************************************)
\* The nodes ast.parse made for the file.
Parsed == 1..Size(source)

\* The nodes that have node n in one of their fields.
Holders(n) == {p \in Parsed : n \in Range(Cat(heap[p].f))}

\* The tree is as parsed: no thread has a marker in it.
AsParsed == \A t \in Threads : ~InWith(t)

\* The parent attributes of the nodes that are written in the source: every one
\* but the root is in the fields of one node only and its parent is that node,
\* the root has no parent, and the parents lead from every node to the root.
PositionParents ==
    AsParsed =>
        \A n \in Parsed :
            /\ Under(n, 1)
            /\ IF n = 1 THEN heap[n].parent = 0 ELSE Holders(n) = {heap[n].parent}

\* C26 parents: while the tree is as parsed, every node but the root has one
\* parent, the node it is a direct child of, and the parents lead to the root of
\* the tree; the context object in the ctx field of a node is a child of that node
\* like any other.
C26_ParentTree ==
    /\ PositionParents
    /\ AsParsed =>
          \A n \in Parsed :
              Ctx(heap, n) # "" => contexts[Ctx(heap, n)] = [own |-> TRUE, node |-> n]

(***************************************************************************)
(* Properties of dict_of, for the specification DictSpec.                  *)
(***************************************************************************)
\* dict_of has been called at the resolved call of thread t and has returned or
\* raised.
DictOfCalled(t) ==
    /\ th[t].result # 0
    /\ CalleeName(heap, th[t].result) = "dict_of"
    /\ th[t].pc \in {"returned", "failed"}

\* The argument nodes of that call, and the starred ones among them.
ArgNodes(t) == heap[th[t].result].f[2]

Stars(t) == {n \in Range(ArgNodes(t)) : heap[n].k = "Starred"}

\* The dict the claim describes for a call with no starred argument: the value of
\* each positional argument under the name of its node, then the keyword arguments.
RECURSIVE Keyed(_, _)
Keyed(nodes, d) ==
    IF nodes = <<>> THEN d
    ELSE Keyed(Tail(nodes), SetItem(d, node_name(heap, Head(nodes))[1], <<Head(nodes), 0>>))

\* The call without starred arguments: a TypeError when an argument has no name,
\* the dict of the names and the keywords otherwise.
PlainDictOf(t) ==
    DictOfCalled(t) /\ Stars(t) = {} =>
        IF \E n \in Range(ArgNodes(t)) : node_name(heap, n) = <<>>
        THEN th[t].pc = "failed" /\ th[t].err = "TypeError"
        ELSE /\ th[t].pc = "returned"
             /\ th[t].made = update(Keyed(ArgNodes(t), <<>>),
                                     ReceivedKw(heap, heap[th[t].result].f[3]))

\* C21 dict_of: each positional argument's value is in the dict under the name of
\* its argument node and the keyword arguments are added after; an argument
\* without a name is a TypeError; and a call written with a starred argument is
\* a TypeError whatever it unpacks to.
C21_DictOf ==
    \A t \in Threads :
        /\ PlainDictOf(t)
        /\ DictOfCalled(t) /\ Stars(t) # {} => th[t].pc = "failed" /\ th[t].err = "TypeError"

(***************************************************************************)
(* Properties of unpack_keys, for the specification UnpackSpec.            *)
(***************************************************************************)
\* unpack_keys has been called at the resolved call of thread t and has found the
\* names it is assigned to.
Unpacked(t) ==
    /\ th[t].result # 0
    /\ CalleeName(heap, th[t].result) = "unpack_keys"
    /\ th[t].pc \in {"returned", "failed", "generator"}
    /\ target.call = th[t].result
    /\ target.err = ""

\* The key looked up for a name: the prefix as given, then the name, its case
\* swapped when swapcase is set.
KeyFor(name, g) ==
    g.prefix \o (IF g.swapcase THEN swapcase(Spelling(name)) ELSE Spelling(name))

\* A name whose key dict d lacks, no default being given.
Lacks(d, g) == ~g.default /\ \E j \in DOMAIN target.names : KeyFor(target.names[j], g) \notin d

\* The values of the dict given at place i for the names, in target order.
Values(d, i, g) ==
    [j \in DOMAIN target.names |->
        IF KeyFor(target.names[j], g) \in d
        THEN [of |-> i, key |-> KeyFor(target.names[j], g)]
        ELSE [of |-> 0, key |-> <<>>]]

\* C22 unpack_keys: for an assignment the call returns the list of the values x
\* has under prefix + name for the names in target order, the name with its case
\* swapped when swapcase is set and the prefix as it is; for a loop or a clause
\* it returns an iterable giving such a list for each element of x in turn; a
\* key that is missing gives the default when there is one and KeyError when
\* there is none.
C22_UnpackKeys ==
    \A t \in Threads :
        Unpacked(t) =>
            \E g \in {th[t].given} :
                IF heap[target.node].k = "Assign"
                THEN IF Lacks(g.d, g)
                     THEN th[t].pc = "failed" /\ th[t].err = "KeyError"
                     ELSE th[t].pc = "returned" /\ th[t].made = Values(g.d, 1, g)
                ELSE /\ heap[target.node].k \in {"For", "comprehension"}
                     /\ Len(th[t].yields) <= Len(g.ds)
                     /\ \A i \in DOMAIN th[t].yields :
                           ~Lacks(g.ds[i], g) /\ th[t].yields[i] = Values(g.ds[i], i, g)
                     /\ th[t].pc = "returned" => Len(th[t].yields) = Len(g.ds)
                     /\ th[t].pc = "failed" =>
                           th[t].err = "KeyError" /\ Lacks(g.ds[Len(th[t].yields) + 1], g)
                     /\ th[t].pc = "generator" /\ Len(th[t].yields) < Len(g.ds) =>
                           th[t].at = Len(th[t].yields)

\* A loop over two dicts with a prefix, swapcase and a default: both lists given,
\* with a value found under P_FOO or P_bAR and a default among them.
C22_Witness ==
    \E t \in Threads :
        /\ Unpacked(t)
        /\ th[t].pc = "returned"
        /\ heap[target.node].k = "For"
        /\ th[t].given.swapcase /\ th[t].given.prefix # <<>> /\ th[t].given.default
        /\ Len(th[t].yields) = 2
        /\ \E i \in 1..2 : \E j \in 1..2 : th[t].yields[i][j].of = 0
        /\ \E i \in 1..2 : \E j \in 1..2 : th[t].yields[i][j].of = i

=============================================================================
